---------------------------- MODULE Spec2Model ----------------------------
(***************************************************************************)
(* A model of the per-account session engine of the Twitter DM bridge      *)
(* (src/mautrix_twitter/user.py, db/user.py, commands/conn.py).            *)
(*                                                                         *)
(* The program is asyncio code: a coroutine runs without interruption      *)
(* until it reaches an await that really suspends, so every action below   *)
(* is the code between two suspension points of one coroutine.             *)
(*                                                                         *)
(* The module holds several specifications, one per part of the engine:    *)
(*   SpecCache      the identity cache (User.get_by_mxid under its lock)   *)
(*   SpecLookups    the identity cache under all its lookups               *)
(*   SpecReconnect  locked_connect callers and the connects they start     *)
(*   SpecSession    one Session: connect, stop, logout, the adapter's      *)
(*                  connection events                                      *)
(*   SpecLive       SpecSession's connects under fairness                  *)
(*   SpecLogin      one Session and its is_logged_in calls                 *)
(*   SpecResync     one Session, its poll loop and the sync command        *)
(*   SpecRecord     one Session and the writes of its persisted row        *)
(*   SpecSync       one run of the initial synchronisation                 *)
(*   SpecEvents     the delivery of remote events to the handlers          *)
(*   SpecNotice     send_bridge_notice calls                               *)
(*   SpecNoticeRoom get_notice_room calls                                  *)
(*   SpecError      the poll loop's errors and on_error                    *)
(* Each one leaves the variables of the other parts at their initial       *)
(* value.                                                                  *)
(***************************************************************************)
EXTENDS Integers, Sequences, FiniteSets, TLC

VARIABLES
    \* ---- identity cache (class User, user.py:78-80, 559-612) ----
    db_user,            \* the "user" table: mxid -> persisted row
    objs,               \* every User instance constructed so far, in order
    by_mxid,            \* User.by_mxid: mxid -> instance (0: no entry)
    by_twid,            \* User.by_twid: twid -> instance (0: no entry)
    _async_get_locks,   \* the getter locks of async_getter_lock, per key
    getters,            \* the get_by_mxid calls: position, arguments, result
    db_loads,           \* per mxid, how many SELECT ... WHERE mxid were sent
    twid_getters,       \* the get_by_twid calls: position, argument, result
    _twid_get_locks,    \* the getter locks of the get_by_twid keys
    lister,             \* the all_logged_in call
    \* ---- one Session (a User instance, user.py:83-122) ----
    client,             \* self.client: the installed TwitterAPI (0: None)
    twid,               \* self.twid
    auth_token,         \* self.auth_token
    csrf_token,         \* self.csrf_token
    poll_cursor,        \* self.poll_cursor
    _connected,         \* self._connected
    _intentional_stop,  \* self._intentional_stop
    _connect_task,      \* self._connect_task (0: None)
    clients,            \* every TwitterAPI object made by _connect
    conns,              \* every _connect call: position and outcome
    lockers,            \* the locked_connect calls
    stopper,            \* the stop() call
    logouter,           \* the logout() call
    disc_pending,       \* an on_disconnect suspended in its health push
    _is_logged_in,      \* self._is_logged_in: "None", "True" or "False"
    pings,              \* the is_logged_in() calls
    syncer,             \* the sync() call of the sync command
    \* ---- history of the Session, read only by the properties ----
    after_stop,         \* the client stop() halted, until the next event
    stop_since_connect, \* stop()/logout() called since the last connect
    last_disc,          \* what the last on_disconnect call saw and did
    logout_post,        \* the Session as logout() left it when it returned
    \* ---- one sync() run (user.py:379-410) ----
    inbox,              \* what all_trusted_conversations() will return
    initial_conversation_sync,  \* config bridge.initial_conversation_sync
    conversations,      \* sync(): the conversations, ranked
    limit,              \* sync(): the room budget
    index,              \* sync(): the rooms asked for so far
    sync_at,            \* sync(): the position of the loop in conversations
    sync_pc,            \* where sync() is
    handled,            \* the handle_conversation_update calls of sync()
    \* ---- the portals ----
    portal_mxid,        \* the conversations whose Portal has a room (mxid)
    \* ---- remote events and their handlers (user.py:517-554) ----
    stream,             \* the events the adapter has to deliver, in order
    delivered,          \* how many of them it has delivered
    handlers,           \* per event, where its handler call is
    translations,       \* the events whose translation was called, in order
    \* ---- bridge notices (user.py:264-308) ----
    notices,            \* the send_bridge_notice calls
    triggered,          \* the calls in the order they were made
    _notice_send_lock,  \* self._notice_send_lock
    _notice_room_lock,  \* self._notice_room_lock
    notice_room,        \* self.notice_room (0: None)
    sent,               \* the notices that reached the room, in order
    disable_bridge_notices, \* config bridge.disable_bridge_notices
    room_calls,         \* the get_notice_room calls made on their own
    \* ---- connection errors (user.py:310-338) ----
    errors,             \* the on_error calls
    temporary_disconnect_notices  \* config bridge.temporary_disconnect_notices

lookupVars == <<twid_getters, _twid_get_locks, lister>>

cacheVars == <<db_user, objs, by_mxid, by_twid, _async_get_locks, getters,
               db_loads, lookupVars>>

sessionVars == <<client, twid, auth_token, csrf_token, poll_cursor,
                 _connected, _intentional_stop, _connect_task, clients,
                 conns, lockers, stopper, logouter, disc_pending>>

historyVars == <<after_stop, stop_since_connect, last_disc, logout_post>>

syncVars == <<inbox, initial_conversation_sync, conversations, limit, index,
              sync_at, sync_pc, handled>>

eventVars == <<stream, delivered, handlers, translations>>

errorVars == <<errors, temporary_disconnect_notices>>

noticeVars == <<notices, triggered, _notice_send_lock, _notice_room_lock,
                notice_room, sent, disable_bridge_notices, room_calls,
                errorVars>>

\* what the ping and the sync command work on
commandVars == <<_is_logged_in, pings, syncer>>

\* what the cache and the connection code never touch (logout() alone
\* resets _is_logged_in)
workVars == <<syncVars, portal_mxid, eventVars, noticeVars, commandVars>>

vars == <<cacheVars, sessionVars, historyVars, workVars>>

-----------------------------------------------------------------------------
(* Bounds of the model.                                                    *)

\* concurrent callers of one lookup function
MaxGetters == 3

\* _connect calls (each makes one TwitterAPI client) in one run
MaxConns == 3

\* locked_connect calls in one run
MaxLockers == 3

\* _connect calls and locked_connect calls in one run of SpecSession
SessConns == 2
SessLockers == 1

\* conversations in the inbox of one sync, and their timestamps
MaxConvs == 3
MaxStamp == 3

\* events in one remote stream, and the conversations they belong to
MaxEvents == 3
MaxEventConvs == 2

\* send_bridge_notice calls in one run
MaxNotices == 3

\* is_logged_in calls in one run
MaxPings == 2

\* the resume cursors 1..MaxCursor, a later one being the greater
MaxCursor == 3

\* get_by_twid calls in one run, and the get_by_mxid calls that run
\* together with them
MaxTwidGetters == 2
LookupGetters == 2

\* get_notice_room calls in one run
MaxRoomCalls == 3

\* connection-errored events in one run, and the largest error count
MaxErrors == 2
MaxErrorCount == 6

-----------------------------------------------------------------------------
(* Values.                                                                 *)

None == 0

\* local ids of real users, and local ids that belong to ghosts (puppets)
UserMxids == {"@u1", "@u2"}
GhostMxids == {"@ghost"}
Mxids == UserMxids \cup GhostMxids

\* remote ids; None is "not logged in"
Twids == {1, 2}

\* A credential pair (auth_token, csrf_token) of the remote account t is
\* written (t, t): the remote service answers for it as account t.
Creds == {[auth_token |-> t, csrf_token |-> t] : t \in Twids}
AccountOf(token) == token

\* the resume cursor the remote service hands out in an inbox snapshot
RespCursor == 1

Getters == 1..MaxGetters
Conns == 1..MaxConns
Lockers == 1..MaxLockers

\* a faulty get_by_mxid: the ghost check is missing
NoGhosts(mxid) == FALSE

\* pu.Puppet.get_id_from_mxid(mxid) is truthy exactly for a ghost's local id
IsGhost(mxid) == mxid \in GhostMxids

\* rows of the "user" table (db/user.py:32-37), notice_room left out
NoRow == [exists |-> FALSE, twid |-> None, auth_token |-> None,
          csrf_token |-> None, poll_cursor |-> None]
Row(t, a, c, cur) == [exists |-> TRUE, twid |-> t, auth_token |-> a,
                      csrf_token |-> c, poll_cursor |-> cur]
LoggedInRows == {Row(t, t, t, cur) : t \in Twids, cur \in {None, RespCursor}}
LoggedOutRow == Row(None, None, None, None)

-----------------------------------------------------------------------------
(* asyncio.Lock, as async_getter_lock uses it: one lock per argument       *)
(* tuple; acquire() takes a free lock without suspending, otherwise the    *)
(* caller queues; release() hands the lock to the longest waiting caller.  *)

FreeLock == [holder |-> None, waiters |-> <<>>]

Released(lock) ==
    IF lock.waiters = <<>>
    THEN [holder |-> None, waiters |-> <<>>]
    ELSE [holder |-> Head(lock.waiters), waiters |-> Tail(lock.waiters)]

\* a faulty async_getter_lock: the decorator takes no lock at all
NoGetterLock(lock, g) == lock.holder # g

\* async_getter_lock: `async with cls._async_get_locks[args]` is entered at
\* once exactly when nobody holds the lock of this key
LockIsFree(lock, g) == lock.holder = None

-----------------------------------------------------------------------------
(* User._add_to_cache, user.py:559-562: the instance is entered under its  *)
(* local id, and under its remote id when it has one.                      *)

_add_to_cache(mxid, tw, obj) ==
    [by_mxid |-> [by_mxid EXCEPT ![mxid] = obj],
     by_twid |-> IF tw # None THEN [by_twid EXCEPT ![tw] = obj] ELSE by_twid]

-----------------------------------------------------------------------------
(* User.get_by_mxid(mxid, create=...), user.py:564-586.                    *)

IdleGetter == [pc |-> "idle", mxid |-> "@u1", create |-> TRUE,
               waited |-> FALSE, result |-> None, obj |-> None]

\* get_by_mxid from its first line to its first suspension, run by getter g
\* once it is inside the lock (`lock` is the lock with g as its holder).
GetByMxidEnter(g, mxid, create, waited, lock) ==
    IF IsGhost(mxid) \/ by_mxid[mxid] # None
    THEN \* `return None` for a ghost, `return cls.by_mxid[mxid]` on a hit
         /\ getters' = [getters EXCEPT ![g] =
                [pc |-> "done", mxid |-> mxid, create |-> create,
                 waited |-> waited,
                 result |-> IF IsGhost(mxid) THEN None ELSE by_mxid[mxid],
                 obj |-> None]]
         /\ _async_get_locks' = [_async_get_locks EXCEPT
                ![mxid] = Released(lock)]
         /\ UNCHANGED db_loads
    ELSE \* `await super().get_by_mxid(mxid)`: the SELECT is sent
         /\ getters' = [getters EXCEPT ![g] =
                [pc |-> "load", mxid |-> mxid, create |-> create,
                 waited |-> waited, result |-> None, obj |-> None]]
         /\ _async_get_locks' = [_async_get_locks EXCEPT ![mxid] = lock]
         /\ db_loads' = [db_loads EXCEPT ![mxid] = @ + 1]

\* A task calls get_by_mxid: it enters the lock of its key, or queues for it.
GetByMxidCall(g, mxid, create) ==
    /\ getters[g].pc = "idle"
    /\ IF LockIsFree(_async_get_locks[mxid], g)
       THEN GetByMxidEnter(g, mxid, create, FALSE,
                [_async_get_locks[mxid] EXCEPT !.holder = g])
       ELSE /\ getters' = [getters EXCEPT ![g] =
                [pc |-> "wait", mxid |-> mxid, create |-> create,
                 waited |-> TRUE, result |-> None, obj |-> None]]
            /\ _async_get_locks' = [_async_get_locks EXCEPT
                ![mxid].waiters = Append(@, g)]
            /\ UNCHANGED db_loads
    /\ UNCHANGED <<db_user, objs, by_mxid, by_twid, lookupVars, sessionVars,
                   historyVars, workVars>>

\* A queued caller was handed the lock and runs on.
GetByMxidAcquired(g) ==
    /\ getters[g].pc = "wait"
    /\ _async_get_locks[getters[g].mxid].holder = g
    /\ GetByMxidEnter(g, getters[g].mxid, getters[g].create, TRUE,
                      _async_get_locks[getters[g].mxid])
    /\ UNCHANGED <<db_user, objs, by_mxid, by_twid, lookupVars, sessionVars,
                   historyVars, workVars>>

\* The SELECT returns (db/user.py:65-74): a row is made into an instance and
\* cached; without a row the instance is constructed and the INSERT sent
\* when create is set, and None is returned otherwise.
GetByMxidLoaded(g) ==
    LET mxid == getters[g].mxid
        new == Len(objs) + 1
    IN  /\ getters[g].pc = "load"
        /\ IF db_user[mxid].exists
           THEN /\ objs' = Append(objs, [mxid |-> mxid,
                                         twid |-> db_user[mxid].twid])
                /\ by_mxid' = _add_to_cache(mxid, db_user[mxid].twid, new).by_mxid
                /\ by_twid' = _add_to_cache(mxid, db_user[mxid].twid, new).by_twid
                /\ getters' = [getters EXCEPT ![g].pc = "done",
                                              ![g].result = new]
                /\ _async_get_locks' = [_async_get_locks EXCEPT
                       ![mxid] = Released(@)]
           ELSE IF getters[g].create
           THEN /\ objs' = Append(objs, [mxid |-> mxid, twid |-> None])
                /\ getters' = [getters EXCEPT ![g].pc = "insert",
                                              ![g].obj = new]
                /\ UNCHANGED <<by_mxid, by_twid, _async_get_locks>>
           ELSE /\ getters' = [getters EXCEPT ![g].pc = "done"]
                /\ _async_get_locks' = [_async_get_locks EXCEPT
                       ![mxid] = Released(@)]
                /\ UNCHANGED <<objs, by_mxid, by_twid>>
        /\ UNCHANGED <<db_user, db_loads, lookupVars, sessionVars,
                       historyVars, workVars>>

\* The INSERT returns (db/user.py:50-55): `user._add_to_cache(); return user`
GetByMxidInserted(g) ==
    LET mxid == getters[g].mxid
    IN  /\ getters[g].pc = "insert"
        /\ db_user' = [db_user EXCEPT ![mxid] =
                          LoggedOutRow]
        /\ by_mxid' = _add_to_cache(mxid, None, getters[g].obj).by_mxid
        /\ by_twid' = _add_to_cache(mxid, None, getters[g].obj).by_twid
        /\ getters' = [getters EXCEPT ![g].pc = "done",
                                      ![g].result = getters[g].obj]
        /\ _async_get_locks' = [_async_get_locks EXCEPT
               ![mxid] = Released(@)]
        /\ UNCHANGED <<objs, db_loads, lookupVars, sessionVars,
                       historyVars, workVars>>

-----------------------------------------------------------------------------
(* User.get_by_twid(twid), user.py:588-601, under the getter lock of its   *)
(* own key.                                                                *)

TwidGetters == 1..MaxTwidGetters

IdleTwidGetter == [pc |-> "idle", twid |-> 1, result |-> None]

\* get_by_twid from its first line to its first suspension, run by getter
\* g once it is inside the lock
GetByTwidEnter(g, t, lock) ==
    IF by_twid[t] # None
    THEN \* `return cls.by_twid[twid]`
         /\ twid_getters' = [twid_getters EXCEPT ![g] =
                [pc |-> "done", twid |-> t, result |-> by_twid[t]]]
         /\ _twid_get_locks' = [_twid_get_locks EXCEPT ![t] = Released(lock)]
    ELSE \* `await super().get_by_twid(twid)`: the SELECT is sent
         /\ twid_getters' = [twid_getters EXCEPT ![g] =
                [pc |-> "load", twid |-> t, result |-> None]]
         /\ _twid_get_locks' = [_twid_get_locks EXCEPT ![t] = lock]

\* A task calls get_by_twid: it enters the lock of its key, or queues
GetByTwidCall(g, t) ==
    /\ twid_getters[g].pc = "idle"
    /\ IF _twid_get_locks[t].holder = None
       THEN GetByTwidEnter(g, t, [_twid_get_locks[t] EXCEPT !.holder = g])
       ELSE /\ twid_getters' = [twid_getters EXCEPT ![g] =
                [pc |-> "wait", twid |-> t, result |-> None]]
            /\ _twid_get_locks' = [_twid_get_locks EXCEPT
                ![t].waiters = Append(@, g)]
    /\ UNCHANGED <<db_user, objs, by_mxid, by_twid, _async_get_locks,
                   getters, db_loads, lister, sessionVars, historyVars,
                   workVars>>

\* A queued caller was handed the lock and runs on.
GetByTwidAcquired(g) ==
    /\ twid_getters[g].pc = "wait"
    /\ _twid_get_locks[twid_getters[g].twid].holder = g
    /\ GetByTwidEnter(g, twid_getters[g].twid,
                      _twid_get_locks[twid_getters[g].twid])
    /\ UNCHANGED <<db_user, objs, by_mxid, by_twid, _async_get_locks,
                   getters, db_loads, lister, sessionVars, historyVars,
                   workVars>>

\* the local ids whose row has the remote id t
RowsOfTwid(t) == {m \in Mxids : db_user[m].exists /\ db_user[m].twid = t}

\* The SELECT returns without a row (db/user.py:83-84): `return None`
GetByTwidMissed(g) ==
    LET t == twid_getters[g].twid
    IN  /\ twid_getters[g].pc = "load"
        /\ RowsOfTwid(t) = {}
        /\ twid_getters' = [twid_getters EXCEPT ![g].pc = "done"]
        /\ _twid_get_locks' = [_twid_get_locks EXCEPT ![t] = Released(@)]
        /\ UNCHANGED <<db_user, objs, by_mxid, by_twid, _async_get_locks,
                       getters, db_loads, lister, sessionVars, historyVars,
                       workVars>>

\* The SELECT returns the row of m (db/user.py:76-85), which is made into
\* an instance; `user._add_to_cache(); return user` (user.py:597-599)
GetByTwidLoaded(g, m) ==
    LET t == twid_getters[g].twid
        new == Len(objs) + 1
    IN  /\ twid_getters[g].pc = "load"
        /\ m \in RowsOfTwid(t)
        /\ objs' = Append(objs, [mxid |-> m, twid |-> t])
        /\ by_mxid' = _add_to_cache(m, t, new).by_mxid
        /\ by_twid' = _add_to_cache(m, t, new).by_twid
        /\ twid_getters' = [twid_getters EXCEPT ![g].pc = "done",
                                                ![g].result = new]
        /\ _twid_get_locks' = [_twid_get_locks EXCEPT ![t] = Released(@)]
        /\ UNCHANGED <<db_user, _async_get_locks, getters, db_loads, lister,
                       sessionVars, historyVars, workVars>>

-----------------------------------------------------------------------------
(* User.all_logged_in, user.py:603-612: the rows with a remote id and a    *)
(* token are loaded, and for each the cached instance is yielded, or the   *)
(* instance made from the row after it was entered in the cache.  objs     *)
(* keeps the instances that are cached or handed out, not the ones made    *)
(* from a row and dropped for the cached one.                              *)

IdleLister == [pc |-> "idle", yielded |-> <<>>]

\* the order in which the rows come back
MxidOrder == <<"@u1", "@u2">>

\* db/user.py:87-94: WHERE twid IS NOT NULL AND auth_token IS NOT NULL
IsLoggedInRow(row) ==
    row.exists /\ row.twid # None /\ row.auth_token # None

\* one turn of the loop of all_logged_in on the cache st, for the row of m
Yield(st, m) ==
    IF ~IsLoggedInRow(db_user[m]) THEN st
    ELSE IF st.by_mxid[m] # None
    THEN [st EXCEPT !.yielded = Append(@, st.by_mxid[m])]
    ELSE LET new == Len(st.objs) + 1
         IN  [objs |-> Append(st.objs,
                              [mxid |-> m, twid |-> db_user[m].twid]),
              by_mxid |-> [st.by_mxid EXCEPT ![m] = new],
              by_twid |-> [st.by_twid EXCEPT ![db_user[m].twid] = new],
              yielded |-> Append(st.yielded, new)]

RECURSIVE YieldAll(_, _)
YieldAll(st, ms) ==
    IF ms = <<>> THEN st ELSE YieldAll(Yield(st, Head(ms)), Tail(ms))

\* all_logged_in is called: the SELECT is sent
AllLoggedInCall ==
    /\ lister.pc = "idle"
    /\ lister' = [lister EXCEPT !.pc = "load"]
    /\ UNCHANGED <<db_user, objs, by_mxid, by_twid, _async_get_locks,
                   getters, db_loads, twid_getters, _twid_get_locks,
                   sessionVars, historyVars, workVars>>

\* the SELECT returns and the loop runs over the rows
AllLoggedInLoaded ==
    LET st == YieldAll([objs |-> objs, by_mxid |-> by_mxid,
                        by_twid |-> by_twid, yielded |-> <<>>], MxidOrder)
    IN  /\ lister.pc = "load"
        /\ objs' = st.objs
        /\ by_mxid' = st.by_mxid
        /\ by_twid' = st.by_twid
        /\ lister' = [pc |-> "done", yielded |-> st.yielded]
        /\ UNCHANGED <<db_user, _async_get_locks, getters, db_loads,
                       twid_getters, _twid_get_locks, sessionVars,
                       historyVars, workVars>>

-----------------------------------------------------------------------------
(* One Session.  The model follows one User instance, that of SelfMxid;    *)
(* the account of the other local id exists only as its persisted row.     *)

SelfMxid == "@u1"
OtherMxid == "@u2"
\* the instance by_twid holds for the Session
SelfObj == 1

cacheRest == <<objs, by_mxid, _async_get_locks, getters, db_loads,
               lookupVars>>

\* a TwitterAPI object: its tokens, its resume cursor, its poll loop
NoClient == [auth_token |-> None, csrf_token |-> None, poll_cursor |-> None,
             poll |-> "idle"]

\* what try_connect did about an exception of its _connect: nothing
NoCatch == [pushes |-> <<>>, raises |-> FALSE]

\* a locked_connect call: where it stands, its arguments, the task it
\* awaits, the task it found running, whether its arguments differed from
\* the tokens of the Session when it was called, and how it ended
\* (IdleLocker below)

\* a _connect call: where it stands, who made it (None: try_connect), the
\* arguments, how the coroutine ended ("run": it has not), the await at
\* which it ended, and what try_connect did about its exception
FreeConn == [pc |-> "free", by |-> None, auth_token |-> None,
             csrf_token |-> None, outcome |-> "run", at |-> "none",
             tried |-> NoCatch]

IdleLocker == [pc |-> "idle", auth_token |-> None, csrf_token |-> None,
               task |-> None, in_flight |-> None, differed |-> FALSE,
               result |-> "none"]

NConns == Cardinality({a \in Conns : conns[a].pc # "free"})
NewConn == NConns + 1

\* TwitterAPI.is_polling()
IsPolling(c) == clients[c].poll \in {"starting", "polling"}

\* TwitterAPI.start_polling(): the poll loop is started; it reports
\* connection-started when it runs
StartPolling(cls, c) ==
    [cls EXCEPT ![c].poll = IF @ = "idle" THEN "starting" ELSE @]

\* TwitterAPI.stop_polling(): the poll loop is told to halt; it reports
\* connection-stopped when it has
StopPolling(cls, c) ==
    [cls EXCEPT ![c].poll = IF @ \in {"starting", "polling"}
                            THEN "stopping" ELSE @]

-----------------------------------------------------------------------------
(* User.update, user.py:134-138 and db/user.py:57-63: the tokens and the   *)
(* cursor are read back from the installed client, then the row is         *)
(* written.  `cl` is self.client and `tw` self.twid when update() runs.    *)

UpdatedTokens(cl) ==
    IF cl # None
    THEN [auth_token |-> clients[cl].auth_token,
          csrf_token |-> clients[cl].csrf_token,
          poll_cursor |-> clients[cl].poll_cursor]
    ELSE [auth_token |-> auth_token, csrf_token |-> csrf_token,
          poll_cursor |-> poll_cursor]

\* update() with self.client = cl, self.twid = tw and the cursor `cur` the
\* instance holds when there is no client
Update(cl, tw) ==
    LET t == UpdatedTokens(cl)
    IN  /\ auth_token' = t.auth_token
        /\ csrf_token' = t.csrf_token
        /\ poll_cursor' = t.poll_cursor
        /\ db_user' = [db_user EXCEPT ![SelfMxid] =
               Row(tw, t.auth_token, t.csrf_token, t.poll_cursor)]

-----------------------------------------------------------------------------
(* User.locked_connect, user.py:180-191.                                   *)

TaskDone(t) == conns[t].outcome # "run"

\* a faulty locked_connect: the running task is not looked at
LockedConnectNoJoin(task, a, c) ==
    IF auth_token = a /\ csrf_token = c THEN "noop" ELSE "start"

\* a faulty locked_connect: the credentials in use are not compared
LockedConnectNoCompare(task, a, c) ==
    IF task # None /\ ~TaskDone(task) THEN "join" ELSE "start"

\* which of the three branches of locked_connect(a, c) is taken
LockedConnectBranch(task, a, c) ==
    IF task # None /\ ~TaskDone(task) THEN "join"
    ELSE IF auth_token = a /\ csrf_token = c THEN "noop"
    ELSE "start"

\* locked_connect(a, c) is called and runs to its first suspension
LockedConnectCall(k, cr, maxc) ==
    LET br == LockedConnectBranch(_connect_task, cr.auth_token, cr.csrf_token)
        seen == IF _connect_task # None /\ ~TaskDone(_connect_task)
                THEN _connect_task ELSE None
        me == [pc |-> "idle", auth_token |-> cr.auth_token,
               csrf_token |-> cr.csrf_token, task |-> None,
               in_flight |-> seen,
               differed |-> ~(auth_token = cr.auth_token
                              /\ csrf_token = cr.csrf_token),
               result |-> "none"]
    IN  /\ lockers[k].pc = "idle"
        /\ \A j \in Lockers : j < k => lockers[j].pc # "idle"
        /\ \/ /\ br = "join"
              /\ _connect_task # None
              \* `await self._connect_task`
              /\ lockers' = [lockers EXCEPT ![k] =
                     [me EXCEPT !.pc = "await", !.task = _connect_task]]
              /\ UNCHANGED <<conns, _connect_task>>
           \/ /\ br = "noop"
              /\ lockers' = [lockers EXCEPT ![k] =
                     [me EXCEPT !.pc = "done", !.result = "ok"]]
              /\ UNCHANGED <<conns, _connect_task>>
           \/ /\ br = "start"
              /\ NConns < maxc
              \* `asyncio.create_task(self._connect(a, c))`, then the await
              /\ conns' = [conns EXCEPT ![NewConn] =
                     [pc |-> "new", by |-> k, auth_token |-> cr.auth_token,
                      csrf_token |-> cr.csrf_token, outcome |-> "run",
                      at |-> "none", tried |-> NoCatch]]
              /\ _connect_task' = NewConn
              /\ lockers' = [lockers EXCEPT ![k] =
                     [me EXCEPT !.pc = "await_own", !.task = NewConn]]
        /\ UNCHANGED <<client, twid, auth_token, csrf_token, poll_cursor,
                       _connected, _intentional_stop, clients, stopper,
                       logouter, disc_pending, db_user, by_twid, cacheRest, workVars,
                       historyVars>>

\* The awaited task is done and the caller runs on: it returns what the
\* task returned or raises what it raised; the caller that made the task
\* first runs `finally: self._connect_task = None`.
LockedConnectReturn(k) ==
    /\ lockers[k].pc \in {"await", "await_own"}
    /\ TaskDone(lockers[k].task)
    /\ lockers' = [lockers EXCEPT ![k].pc = "done",
                                  ![k].result = conns[lockers[k].task].outcome]
    /\ _connect_task' = IF lockers[k].pc = "await_own" THEN None
                        ELSE _connect_task
    /\ UNCHANGED <<client, twid, auth_token, csrf_token, poll_cursor,
                   _connected, _intentional_stop, clients, conns, stopper,
                   logouter, disc_pending, db_user, by_twid, cacheRest, workVars,
                   historyVars>>

-----------------------------------------------------------------------------
(* User._connect, user.py:193-232, with User.get_info, user.py:447-450.    *)
(* Every await of a remote or database call is a suspension; the call      *)
(* returns or raises (`res`).                                              *)

\* a faulty try_connect: only authentication errors are caught
TryConnectCatchAuthOnly(by, kind) ==
    IF by # None \/ kind = "ok" THEN NoCatch
    ELSE IF kind = "auth_error"
         THEN [pushes |-> <<"BAD_CREDENTIALS">>, raises |-> FALSE]
         ELSE [pushes |-> <<>>, raises |-> TRUE]

\* try_connect, user.py:158-178, for the way its `await self._connect()`
\* ended: TwitterAuthError is answered with a BAD_CREDENTIALS push,
\* TwitterError and every other Exception with an UNKNOWN_ERROR push, and
\* no clause raises again.  A _connect that locked_connect made (by is not
\* None) is not inside try_connect.
TryConnectCatch(by, kind) ==
    IF by # None \/ kind = "ok" THEN NoCatch
    ELSE IF kind = "auth_error"
         THEN [pushes |-> <<"BAD_CREDENTIALS">>, raises |-> FALSE]
         ELSE [pushes |-> <<"UNKNOWN_ERROR">>, raises |-> FALSE]

\* _connect call a returns (kind "ok") or raises
Ended(a, kind) ==
    [conns EXCEPT ![a].pc = "end", ![a].outcome = kind,
                  ![a].at = conns[a].pc,
                  ![a].tried = TryConnectCatch(conns[a].by, kind)]

\* user.py:194-203: the client is made with the arguments, or else the
\* Session's tokens, and the Session's cursor; the identity check is sent
MakeClient(a, au, cs) ==
    [clients EXCEPT ![a] =
        [auth_token |-> IF au # None THEN au ELSE auth_token,
         csrf_token |-> IF cs # None THEN cs ELSE csrf_token,
         poll_cursor |-> poll_cursor, poll |-> "idle"]]

\* try_connect(), user.py:157-159, called once for an account that was
\* loaded logged in (init_cls, user.py:132): `await self._connect()`
TryConnect ==
    /\ NConns = 0
    /\ auth_token # None
    /\ conns' = [conns EXCEPT ![NewConn] =
           [pc |-> "identify", by |-> None, auth_token |-> None,
            csrf_token |-> None, outcome |-> "run", at |-> "none",
            tried |-> NoCatch]]
    /\ clients' = MakeClient(NewConn, None, None)
    /\ UNCHANGED <<client, twid, auth_token, csrf_token, poll_cursor,
                   _connected, _intentional_stop, _connect_task, lockers,
                   stopper, logouter, disc_pending, db_user, by_twid,
                   cacheRest, workVars, historyVars>>

\* the task locked_connect made starts to run
ConnectBegin(a) ==
    /\ conns[a].pc = "new"
    /\ clients' = MakeClient(a, conns[a].auth_token, conns[a].csrf_token)
    /\ conns' = [conns EXCEPT ![a].pc = "identify"]
    /\ UNCHANGED <<client, twid, auth_token, csrf_token, poll_cursor,
                   _connected, _intentional_stop, _connect_task, lockers,
                   stopper, logouter, disc_pending, db_user, by_twid,
                   cacheRest, workVars, historyVars>>

\* a faulty _connect: the client is installed before the identity check
\* has returned
InstalledUnchecked(a, res) == a

\* self.client after `await client.get_user_identifier()` of connect a
\* returned or raised: `self.client = client` and the add_handler calls
\* (user.py:205-217) come after the await, so a raise skips them
Installed(a, res) == IF res = "ok" THEN a ELSE client

\* `await client.get_user_identifier()` returns: user.py:205-217, the
\* client is installed (`self.client = client`, nothing is done to the client
\* installed before) and get_info() sends get_settings; or it raises
ConnectIdentified(a, res) ==
    /\ conns[a].pc = "identify"
    /\ client' = Installed(a, res)
    /\ conns' = IF res = "ok" THEN [conns EXCEPT ![a].pc = "settings"]
                ELSE Ended(a, res)
    /\ UNCHANGED clients
    /\ UNCHANGED <<twid, auth_token, csrf_token, poll_cursor, _connected,
                   _intentional_stop, _connect_task, lockers, stopper,
                   logouter, disc_pending, db_user, by_twid, cacheRest, workVars,
                   historyVars>>

\* `await self.client.get_settings()` returns: lookup_users is sent through
\* self.client, which raises AttributeError when it is None by now
ConnectSettings(a, res) ==
    /\ conns[a].pc = "settings"
    /\ res \in {"ok", "error"}
    /\ conns' = IF res = "ok" /\ client # None
                THEN [conns EXCEPT ![a].pc = "lookup"]
                ELSE Ended(a, "error")
    /\ UNCHANGED <<client, twid, auth_token, csrf_token, poll_cursor,
                   _connected, _intentional_stop, _connect_task, clients,
                   lockers, stopper, logouter, disc_pending, db_user,
                   by_twid, cacheRest, workVars, historyVars>>

\* `await self.client.lookup_users(...)` returns the account of the tokens
\* of this call's client: user.py:220-224, `self.twid = user_info.id`,
\* `self.by_twid[self.twid] = self`, `await self.update()`
ConnectLookedUp(a, res) ==
    LET id == AccountOf(clients[a].auth_token)
    IN  /\ conns[a].pc = "lookup"
        /\ res \in {"ok", "error"}
        /\ IF res = "ok"
           THEN /\ twid' = id
                /\ by_twid' = [by_twid EXCEPT ![id] = SelfObj]
                /\ Update(client, id)
                /\ conns' = [conns EXCEPT ![a].pc = "update"]
           ELSE /\ conns' = Ended(a, "error")
                /\ UNCHANGED <<twid, by_twid, auth_token, csrf_token,
                               poll_cursor, db_user>>
        /\ UNCHANGED <<client, _connected, _intentional_stop, _connect_task,
                       clients, lockers, stopper, logouter, disc_pending,
                       cacheRest, workVars, historyVars>>

\* `await self.update()` returns: user.py:226-232.  With a cursor the poll
\* loop of self.client is started (AttributeError when self.client is None
\* by now), without one the initial sync is made a background task.
ConnectUpdated(a, res) ==
    /\ conns[a].pc = "update"
    /\ res \in {"ok", "error"}
    /\ IF res = "error"
       THEN /\ conns' = Ended(a, "error")
            /\ UNCHANGED <<_intentional_stop, clients, stop_since_connect>>
       ELSE /\ _intentional_stop' = FALSE
            /\ IF poll_cursor # None
               THEN IF client # None
                    THEN /\ clients' = StartPolling(clients, client)
                         /\ conns' = Ended(a, "ok")
                         /\ stop_since_connect' = FALSE
                    ELSE /\ conns' = Ended(a, "error")
                         /\ UNCHANGED <<clients, stop_since_connect>>
               ELSE /\ conns' = [conns EXCEPT ![a].pc = "sync_new",
                                              ![a].outcome = "ok"]
                    /\ stop_since_connect' = FALSE
                    /\ UNCHANGED clients
    /\ UNCHANGED <<client, twid, auth_token, csrf_token, poll_cursor,
                   _connected, _connect_task, lockers, stopper, logouter,
                   disc_pending, db_user, by_twid, cacheRest, workVars, after_stop,
                   last_disc, logout_post>>

-----------------------------------------------------------------------------
(* User._try_initial_sync, user.py:359-365, and the part of User.sync that *)
(* touches the Session, user.py:379-386.  The task belongs to the _connect *)
(* call that made it.  An exception of sync() is caught and logged, then   *)
(* `self.client.start_polling()` runs whatever happened; it raises         *)
(* AttributeError, which ends the task, when self.client is None.          *)

\* a faulty _try_initial_sync: the poll loop is not started
SyncStartsNothing(a) ==
    /\ clients' = clients
    /\ conns' = [conns EXCEPT ![a].pc = "end"]

\* user.py:365 for the task of connect a
SyncStartsPolling(a) ==
    /\ clients' = IF client # None THEN StartPolling(clients, client)
                  ELSE clients
    /\ conns' = [conns EXCEPT ![a].pc = "end"]

\* the task starts: `self.client.inbox_initial_state(...)` is sent
SyncBegin(a) ==
    /\ conns[a].pc = "sync_new"
    /\ IF client # None
       THEN /\ conns' = [conns EXCEPT ![a].pc = "sync_inbox"]
            /\ UNCHANGED clients
       ELSE SyncStartsPolling(a)
    /\ UNCHANGED <<client, twid, auth_token, csrf_token, poll_cursor,
                   _connected, _intentional_stop, _connect_task, lockers,
                   stopper, logouter, disc_pending, db_user, by_twid,
                   cacheRest, workVars, historyVars>>

\* the inbox snapshot returns: user.py:382-386, the cursor is adopted when
\* the Session has none, and given to self.client
SyncInbox(a, res) ==
    LET cur == IF poll_cursor = None THEN RespCursor ELSE poll_cursor
    IN  /\ conns[a].pc = "sync_inbox"
        /\ res \in {"ok", "error"}
        /\ IF res = "error"
           THEN /\ SyncStartsPolling(a)
                /\ UNCHANGED poll_cursor
           ELSE /\ poll_cursor' = cur
                /\ IF client # None
                   THEN /\ clients' = [clients EXCEPT
                               ![client].poll_cursor = cur]
                        /\ conns' = [conns EXCEPT ![a].pc = "sync_convs"]
                   ELSE SyncStartsPolling(a)
        /\ UNCHANGED <<client, twid, auth_token, csrf_token, _connected,
                       _intentional_stop, _connect_task, lockers, stopper,
                       logouter, disc_pending, db_user, by_twid, cacheRest, workVars,
                       historyVars>>

\* the conversations are fetched and handled (SpecSync), sync() returns or
\* raises, and the poll loop is started
SyncFinished(a) ==
    /\ conns[a].pc = "sync_convs"
    /\ SyncStartsPolling(a)
    /\ UNCHANGED <<client, twid, auth_token, csrf_token, poll_cursor,
                   _connected, _intentional_stop, _connect_task, lockers,
                   stopper, logouter, disc_pending, db_user, by_twid,
                   cacheRest, workVars, historyVars>>

-----------------------------------------------------------------------------
(* User.stop, user.py:452-457, called once, when the bridge shuts down,    *)
(* for every Session in by_twid (__main__.py:74-75).                       *)

StopCall ==
    /\ stopper = "idle"
    /\ \E t \in Twids : by_twid[t] = SelfObj
    /\ IF client # None
       THEN /\ _intentional_stop' = TRUE
            /\ clients' = StopPolling(clients, client)
            /\ after_stop' = IF IsPolling(client) THEN client ELSE after_stop
       ELSE UNCHANGED <<_intentional_stop, clients, after_stop>>
    /\ Update(client, twid)
    /\ stopper' = "update"
    /\ stop_since_connect' = TRUE
    /\ UNCHANGED <<client, twid, _connected, _connect_task, conns, lockers,
                   logouter, disc_pending, by_twid, cacheRest, workVars, last_disc,
                   logout_post>>

\* `await self.update()` returns and so does stop()
StopReturn ==
    /\ stopper = "update"
    /\ stopper' = "done"
    /\ UNCHANGED <<client, twid, auth_token, csrf_token, poll_cursor,
                   _connected, _intentional_stop, _connect_task, clients,
                   conns, lockers, logouter, disc_pending, db_user, by_twid,
                   cacheRest, workVars, historyVars>>

-----------------------------------------------------------------------------
(* User.get_by_twid, user.py:588-601 and db/user.py:76-85, as a function   *)
(* of the cache and the table: the local id of the account it returns.     *)

GetByTwidResult(t) ==
    IF by_twid[t] = SelfObj THEN SelfMxid
    ELSE IF RowsOfTwid(t) # {} THEN CHOOSE m \in RowsOfTwid(t) : TRUE
    ELSE "none"

-----------------------------------------------------------------------------
(* User.logout, user.py:459-478, called once in a run.                     *)

NoLogout == [pc |-> "idle", old_twid |-> None]

NoLogoutPost == [done |-> FALSE, old_twid |-> None, twid |-> None,
                 auth_token |-> None, csrf_token |-> None,
                 poll_cursor |-> None, row |-> NoRow, cached |-> None,
                 lookup |-> "none"]

\* user.py:460-465: the stop, then the puppet is looked up (a suspension)
LogoutCall ==
    /\ logouter.pc = "idle"
    /\ twid # None \/ client # None
    /\ IF client # None
       THEN /\ _intentional_stop' = TRUE
            /\ clients' = StopPolling(clients, client)
       ELSE UNCHANGED <<_intentional_stop, clients>>
    /\ logouter' = [logouter EXCEPT !.pc = "puppet"]
    /\ stop_since_connect' = TRUE
    /\ UNCHANGED <<client, twid, auth_token, csrf_token, poll_cursor,
                   _connected, _connect_task, conns, lockers, stopper,
                   disc_pending, db_user, by_twid, cacheRest, workVars, after_stop,
                   last_disc, logout_post>>

\* user.py:468-478: the cache entry of self.twid is deleted, the fields are
\* cleared and update() writes the row
LogoutClear ==
    /\ logouter.pc = "puppet"
    /\ by_twid' = IF twid # None THEN [by_twid EXCEPT ![twid] = None]
                  ELSE by_twid
    /\ client' = None
    /\ twid' = None
    /\ poll_cursor' = None
    /\ auth_token' = None
    /\ csrf_token' = None
    /\ db_user' = [db_user EXCEPT ![SelfMxid] = Row(None, None, None, None)]
    /\ _is_logged_in' = "None"
    /\ logouter' = [pc |-> "update", old_twid |-> twid]
    /\ UNCHANGED <<_connected, _intentional_stop, _connect_task, clients,
                   conns, lockers, stopper, disc_pending, cacheRest,
                   syncVars, portal_mxid, eventVars, noticeVars, pings,
                   syncer, historyVars>>

\* `await self.update()` returns and so does logout()
LogoutReturn ==
    LET old == logouter.old_twid
    IN  /\ logouter.pc = "update"
        /\ logouter' = [pc |-> "done", old_twid |-> old]
        /\ logout_post' =
               [done |-> TRUE, old_twid |-> old, twid |-> twid,
                auth_token |-> auth_token, csrf_token |-> csrf_token,
                poll_cursor |-> poll_cursor, row |-> db_user[SelfMxid],
                cached |-> IF old # None THEN by_twid[old] ELSE None,
                lookup |-> IF old # None THEN GetByTwidResult(old)
                           ELSE "none"]
        /\ UNCHANGED <<client, twid, auth_token, csrf_token, poll_cursor,
                       _connected, _intentional_stop, _connect_task, clients,
                       conns, lockers, stopper, disc_pending, db_user,
                       by_twid, cacheRest, workVars, after_stop, stop_since_connect,
                       last_disc>>

-----------------------------------------------------------------------------
(* User.is_logged_in, user.py:142-150, as the ping command calls it        *)
(* (commands/conn.py:41-43).  The answer of the identity check is kept in  *)
(* _is_logged_in and asked for again only after logout() has reset it.     *)

Pings == 1..MaxPings

\* an is_logged_in call: where it stands, self.client when it was called,
\* whether that client had been installed by a _connect that succeeded,
\* the answer of the identity check it made ("unasked": it made none),
\* self.client when it returned, and what it returned
IdlePing == [pc |-> "idle", cl |-> None, connected |-> FALSE,
             checked |-> "unasked", cl_ret |-> None, result |-> FALSE]

\* `return self.client and self._is_logged_in`
Truthy(cl, cached) == cl # None /\ cached = "True"

\* is_logged_in() is called and runs to its first suspension
IsLoggedInCall(p) ==
    LET me == [IdlePing EXCEPT !.cl = client,
                               !.connected = client # None
                                             /\ conns[client].outcome = "ok"]
    IN  /\ pings[p].pc = "idle"
        /\ \A q \in Pings : q < p => pings[q].pc # "idle"
        /\ IF client = None
           THEN \* `if not self.client: return False`
                pings' = [pings EXCEPT ![p] = [me EXCEPT !.pc = "done"]]
           ELSE IF _is_logged_in = "None"
           THEN \* `await self.client.get_user_identifier()` is sent
                pings' = [pings EXCEPT ![p] = [me EXCEPT !.pc = "check"]]
           ELSE pings' = [pings EXCEPT ![p] =
                    [me EXCEPT !.pc = "done", !.cl_ret = client,
                               !.result = Truthy(client, _is_logged_in)]]
        /\ UNCHANGED <<cacheVars, sessionVars, historyVars, syncVars,
                       portal_mxid, eventVars, noticeVars, _is_logged_in,
                       syncer>>

\* the identity check returns an identifier ("ok"), returns None ("none")
\* or raises ("error")
IsLoggedInChecked(p, res) ==
    LET ans == IF res = "ok" THEN "True" ELSE "False"
    IN  /\ pings[p].pc = "check"
        /\ res \in {"ok", "none", "error"}
        /\ _is_logged_in' = ans
        /\ pings' = [pings EXCEPT ![p].pc = "done",
                                  ![p].checked = res,
                                  ![p].cl_ret = client,
                                  ![p].result = Truthy(client, ans)]
        /\ UNCHANGED <<cacheVars, sessionVars, historyVars, syncVars,
                       portal_mxid, eventVars, noticeVars, syncer>>

-----------------------------------------------------------------------------
(* The sync command, commands/conn.py:59-61: `await evt.sender.sync()`,    *)
(* called once, and what sync() does to the cursors, user.py:380-384.  The *)
(* rest of sync() is SpecSync's.  The poll loop of a client moves the      *)
(* client's cursor on as it reads the stream; update() reads it back       *)
(* (user.py:137).                                                          *)

\* the sync() call: where it stands, self.poll_cursor when it was called,
\* and the cursor of self.client before and after line 384
IdleSyncer == [pc |-> "idle", held |-> None, before |-> None,
               after |-> None]

\* the poll loop of client c has read a part of the stream
PollAdvanced(c) ==
    /\ clients[c].poll = "polling"
    /\ clients[c].poll_cursor < MaxCursor
    /\ clients' = [clients EXCEPT ![c].poll_cursor =
                       IF @ = None THEN RespCursor ELSE @ + 1]
    /\ UNCHANGED <<client, twid, auth_token, csrf_token, poll_cursor,
                   _connected, _intentional_stop, _connect_task, conns,
                   lockers, stopper, logouter, disc_pending, db_user,
                   by_twid, cacheRest, workVars, historyVars>>

\* sync() is called on a Session with a client: the BACKFILLING push, then
\* `self.client.inbox_initial_state(set_poll_cursor=False)` is sent
SyncCommandCall ==
    /\ syncer.pc = "idle"
    /\ client # None
    /\ syncer' = [syncer EXCEPT !.pc = "inbox", !.held = poll_cursor]
    /\ UNCHANGED <<cacheVars, sessionVars, historyVars, syncVars,
                   portal_mxid, eventVars, noticeVars, _is_logged_in, pings>>

\* the inbox snapshot returns or raises: user.py:382-384
SyncCommandInbox(res) ==
    LET cur == IF poll_cursor = None THEN RespCursor ELSE poll_cursor
    IN  /\ syncer.pc = "inbox"
        /\ res \in {"ok", "error"}
        /\ IF res = "error"
           THEN /\ syncer' = [syncer EXCEPT !.pc = "raised"]
                /\ UNCHANGED <<poll_cursor, clients>>
           ELSE /\ poll_cursor' = cur
                /\ IF client # None
                   THEN /\ clients' = [clients EXCEPT
                               ![client].poll_cursor = cur]
                        /\ syncer' = [syncer EXCEPT
                               !.pc = "fetch",
                               !.before = clients[client].poll_cursor,
                               !.after = cur]
                   ELSE \* AttributeError: self.client is None by now
                        /\ syncer' = [syncer EXCEPT !.pc = "raised"]
                        /\ UNCHANGED clients
        /\ UNCHANGED <<client, twid, auth_token, csrf_token, _connected,
                       _intentional_stop, _connect_task, conns, lockers,
                       stopper, logouter, disc_pending, db_user, by_twid,
                       cacheRest, syncVars, portal_mxid, eventVars,
                       noticeVars, _is_logged_in, pings, historyVars>>

-----------------------------------------------------------------------------
(* The stop-polling command, commands/conn.py:87-95.                       *)

StopPollingCommand ==
    /\ client # None
    /\ IsPolling(client)
    /\ clients' = StopPolling(clients, client)
    /\ UNCHANGED <<client, twid, auth_token, csrf_token, poll_cursor,
                   _connected, _intentional_stop, _connect_task, conns,
                   lockers, stopper, logouter, disc_pending, db_user,
                   by_twid, cacheRest, workVars, historyVars>>

-----------------------------------------------------------------------------
(* The connection events of a client's poll loop and their handlers:       *)
(* on_connect, user.py:249-252, and on_disconnect, user.py:254-261.        *)

NoDisc == [evt |-> "none", client |-> None, pushed |-> FALSE,
           after_stop |-> None, stop_since_connect |-> FALSE]

\* a faulty on_disconnect: the flag is read the wrong way round
PushWhenIntentional(evt) == evt = "stopped" /\ _intentional_stop

\* whether on_disconnect pushes UNKNOWN_ERROR / twitter-not-connected
\* (user.py:257)
PushesNotConnected(evt) == evt = "stopped" /\ ~_intentional_stop

\* connection-started: on_connect
ReportStarted(c) ==
    /\ clients[c].poll = "starting"
    /\ clients' = [clients EXCEPT ![c].poll = "polling"]
    /\ _connected' = TRUE
    /\ after_stop' = None
    /\ UNCHANGED <<client, twid, auth_token, csrf_token, poll_cursor,
                   _intentional_stop, _connect_task, conns, lockers, stopper,
                   logouter, disc_pending, db_user, by_twid, cacheRest, workVars,
                   stop_since_connect, last_disc, logout_post>>

\* connection-errored: on_disconnect, which has no await on this path; a
\* fatal error ends the poll loop, which then reports connection-stopped
ReportErrored(c, fatal) ==
    /\ clients[c].poll = "polling"
    /\ clients' = [clients EXCEPT ![c].poll = IF fatal THEN "stopping" ELSE @]
    /\ _connected' = FALSE
    /\ _intentional_stop' = FALSE
    /\ last_disc' = [evt |-> "errored", client |-> c,
                     pushed |-> PushesNotConnected("errored"),
                     after_stop |-> after_stop,
                     stop_since_connect |-> stop_since_connect]
    /\ after_stop' = None
    /\ UNCHANGED <<client, twid, auth_token, csrf_token, poll_cursor,
                   _connect_task, conns, lockers, stopper, logouter,
                   disc_pending, db_user, by_twid, cacheRest, workVars,
                   stop_since_connect, logout_post>>

\* connection-stopped: on_disconnect up to its await of the health push,
\* or to its end when it pushes nothing
ReportStopped(c) ==
    LET push == PushesNotConnected("stopped")
    IN  /\ clients[c].poll = "stopping"
        /\ clients' = [clients EXCEPT ![c].poll = "idle"]
        /\ _connected' = FALSE
        /\ IF push
           THEN /\ disc_pending' = TRUE
                /\ UNCHANGED _intentional_stop
           ELSE /\ _intentional_stop' = FALSE
                /\ UNCHANGED disc_pending
        /\ last_disc' = [evt |-> "stopped", client |-> c, pushed |-> push,
                         after_stop |-> after_stop,
                         stop_since_connect |-> stop_since_connect]
        /\ after_stop' = None
        /\ UNCHANGED <<client, twid, auth_token, csrf_token, poll_cursor,
                       _connect_task, conns, lockers, stopper, logouter,
                       db_user, by_twid, cacheRest, workVars, stop_since_connect,
                       logout_post>>

\* the health push of on_disconnect returns: user.py:261
OnDisconnectResume ==
    /\ disc_pending
    /\ disc_pending' = FALSE
    /\ _intentional_stop' = FALSE
    /\ UNCHANGED <<client, twid, auth_token, csrf_token, poll_cursor,
                   _connected, _connect_task, clients, conns, lockers,
                   stopper, logouter, db_user, by_twid, cacheRest, workVars,
                   historyVars>>

-----------------------------------------------------------------------------
(* User.sync, user.py:379-410: the initial synchronisation. The cursor     *)
(* part of it (user.py:380-384) is SyncInbox above; here are the ranking,  *)
(* the room budget and the loop over the conversations.                    *)

Convs == 1..MaxConvs

Stamps == 1..MaxStamp

\* a Conversation as sync() reads it: conversation_id, sort_timestamp,
\* trusted
Conversation(id, ts, tr) ==
    [conversation_id |-> id, sort_timestamp |-> ts, trusted |-> tr]

\* what all_trusted_conversations() can return: a dict keyed by
\* conversation id, so its values() have distinct ids; they are numbered
\* here in the order of the dict
Inboxes ==
    UNION {{[i \in 1..n |-> Conversation(i, ts[i], tr[i])] :
              ts \in [1..n -> Stamps], tr \in [1..n -> BOOLEAN]} :
           n \in 0..MaxConvs}

\* sorted(..., key=sort_timestamp, reverse=True), user.py:388-390: x goes
\* in front of the first element that does not rank above it, so that
\* equal timestamps keep the order they came in (the sort is stable)
RECURSIVE InsertRanked(_, _)
InsertRanked(x, s) ==
    IF s = <<>> THEN <<x>>
    ELSE IF Head(s).sort_timestamp > x.sort_timestamp
         THEN <<Head(s)>> \o InsertRanked(x, Tail(s))
         ELSE <<x>> \o s

RECURSIVE SortedRanked(_)
SortedRanked(s) ==
    IF s = <<>> THEN <<>> ELSE InsertRanked(Head(s), SortedRanked(Tail(s)))

\* a faulty budget test: the trusted flag is not looked at
CreatePortalAnyTrust(i, lim, conversation) == i < lim

\* user.py:401: create_portal = index < limit and conversation.trusted
CreatePortal(i, lim, conversation) == i < lim /\ conversation.trusted

\* user.py:393-394: a negative limit means every conversation
EffectiveLimit(lim, n) == IF lim < 0 THEN n ELSE lim

\* a faulty handle_conversation_update: create_portal is not looked at
HandleConversationUpdateAlways(mxids, conversation, create_portal, res) ==
    IF conversation.conversation_id \notin mxids /\ res = "ok"
    THEN mxids \cup {conversation.conversation_id}
    ELSE mxids

\* create_portal when the caller does not pass it (user.py:485): the poll
\* loop calls the handler with the event alone
DefaultCreatePortal == FALSE

\* handle_conversation_update, user.py:483-510, as far as rooms go: a
\* conversation without a room gets one when create_portal is set and
\* create_matrix_room does not raise
HandleConversationUpdate(mxids, conversation, create_portal, res) ==
    IF conversation.conversation_id \notin mxids /\ create_portal /\ res = "ok"
    THEN mxids \cup {conversation.conversation_id}
    ELSE mxids

\* sync() is called: the BACKFILLING push, the inbox snapshot, then
\* all_trusted_conversations() is awaited (user.py:380-386)
SyncCall ==
    /\ sync_pc = "idle"
    /\ sync_pc' = "fetch"
    /\ UNCHANGED <<inbox, initial_conversation_sync, conversations, limit,
                   index, sync_at, handled, portal_mxid>>
    /\ UNCHANGED <<cacheVars, sessionVars, historyVars, commandVars, eventVars,
                   noticeVars>>

\* the conversations arrive: they are ranked and the limit is read
\* (user.py:386-396); the puppets of `users` are left out
SyncFetched ==
    /\ sync_pc = "fetch"
    /\ conversations' = SortedRanked(inbox)
    /\ limit' = EffectiveLimit(initial_conversation_sync, Len(inbox))
    /\ index' = 0
    /\ sync_at' = 1
    /\ sync_pc' = "loop"
    /\ UNCHANGED <<inbox, initial_conversation_sync, handled, portal_mxid>>
    /\ UNCHANGED <<cacheVars, sessionVars, historyVars, commandVars, eventVars,
                   noticeVars>>

\* a faulty sync(): what the handler raises is not caught
AfterHandlerUncaught(res) == IF res = "ok" THEN "loop" ELSE "raised"

\* where sync() is after a handle_conversation_update call returned or
\* raised: `except Exception` (user.py:406-409) logs what was raised and
\* the loop goes on
AfterHandler(res) == "loop"

\* one turn of the loop, user.py:397-409: the budget test, the handler
\* call, and the except clause that swallows what the handler raises
SyncConversation(res) ==
    /\ sync_pc = "loop"
    /\ sync_at <= Len(conversations)
    /\ LET conversation == conversations[sync_at]
           create_portal == CreatePortal(index, limit, conversation)
       IN  /\ index' = IF create_portal THEN index + 1 ELSE index
           /\ handled' = Append(handled,
                  [conversation |-> conversation,
                   create_portal |-> create_portal,
                   had_room |-> conversation.conversation_id \in portal_mxid,
                   outcome |-> res])
           /\ portal_mxid' = HandleConversationUpdate(portal_mxid,
                                 conversation, create_portal, res)
    /\ sync_at' = sync_at + 1
    /\ sync_pc' = AfterHandler(res)
    /\ UNCHANGED <<inbox, initial_conversation_sync, conversations, limit>>
    /\ UNCHANGED <<cacheVars, sessionVars, historyVars, commandVars, eventVars,
                   noticeVars>>

\* after the loop: update_direct_chats() and the return (user.py:410)
SyncDirectChats ==
    /\ sync_pc = "loop"
    /\ sync_at > Len(conversations)
    /\ sync_pc' = "done"
    /\ UNCHANGED <<inbox, initial_conversation_sync, conversations, limit,
                   index, sync_at, handled, portal_mxid>>
    /\ UNCHANGED <<cacheVars, sessionVars, historyVars, commandVars, eventVars,
                   noticeVars>>

SyncIdle ==
    /\ inbox = <<>>
    /\ initial_conversation_sync = 0
    /\ conversations = <<>>
    /\ limit = 0
    /\ index = 0
    /\ sync_at = 1
    /\ sync_pc = "idle"
    /\ handled = <<>>

-----------------------------------------------------------------------------
(* The event handlers the Session registers with its client                *)
(* (user.py:206-217) and the adapter's delivery of events to them.         *)

\* the entry types with a handler that works on a portal: Conversation,
\* MessageEntry, ReactionCreateEntry, ReactionDeleteEntry,
\* ConversationReadEntry (user.py:206-211)
EventKinds ==
    {"conversation", "message", "reaction_add", "reaction_remove", "receipt"}

EventConvs == 1..MaxEventConvs

\* what the remote stream can carry: events, each of one conversation
Streams ==
    UNION {[1..n -> [conversation_id : EventConvs, kind : EventKinds]] :
           n \in 0..MaxEvents}

Events == 1..MaxEvents

\* a handler that has not been called; besides its position a handler
\* keeps what it saw and did: whether the portal it got had a room, whether
\* it made a room, whether its backfill_lock.wait returned, whether it
\* raised
IdleHandler ==
    [pc |-> "idle", had_room |-> FALSE, made_room |-> FALSE,
     waited |-> FALSE, raised |-> FALSE]

\* a faulty handler: it hands control back at its first await and does the
\* rest in the background
HandlerPendingFirstAwait(e) == handlers[e].pc = "portal"

\* the handler coroutine of event e has been called and has not returned:
\* handle_message, handle_reaction and handle_receipt await every call they
\* make, the translation included (user.py:526, 538-544, 554)
HandlerPending(e) == handlers[e].pc \notin {"idle", "done"}

\* The adapter delivers the next event of the stream: it calls the handler
\* registered for the event's type and awaits it, so it delivers nothing
\* while a handler has not returned. The handler starts by awaiting
\* Portal.get_by_twid (user.py:518, 529, 547).
Dispatch ==
    /\ delivered < Len(stream)
    /\ \A e \in Events : ~HandlerPending(e)
    /\ delivered' = delivered + 1
    /\ handlers' = [handlers EXCEPT ![delivered + 1].pc = "portal"]
    /\ UNCHANGED <<stream, translations, portal_mxid>>
    /\ UNCHANGED <<cacheVars, sessionVars, historyVars, commandVars, syncVars,
                   noticeVars>>

\* a faulty handler: every kind of event makes the room that is missing
AfterPortalAlwaysRoom(kind, has_room) ==
    IF has_room THEN "sender" ELSE "create_room"

\* where a handler goes once it has its portal: user.py:521-522 (a message
\* makes the room that is missing), 532-534 and 550-551 (a reaction or a
\* receipt without a room is dropped)
AfterPortal(kind, has_room) ==
    IF has_room THEN "sender"
    ELSE IF kind = "message" THEN "create_room" ELSE "done"

\* Portal.get_by_twid returns to handle_conversation_update, called for
\* the Conversation event e with the event alone (user.py:206, 483-510):
\* a portal with a room has its info updated (498), one without gets a
\* room only under create_portal (490-494); then the handler returns or
\* raises
HandleConversation(e, res) ==
    LET has_room == stream[e].conversation_id \in portal_mxid
        after == HandleConversationUpdate(portal_mxid, stream[e],
                                          DefaultCreatePortal, res)
    IN  /\ handlers[e].pc = "portal"
        /\ stream[e].kind = "conversation"
        /\ portal_mxid' = after
        /\ handlers' = [handlers EXCEPT ![e] =
               [pc |-> "done", had_room |-> has_room,
                made_room |-> after # portal_mxid, waited |-> FALSE,
                raised |-> (res = "error"
                            /\ (has_room \/ DefaultCreatePortal))]]
        /\ translations' = IF has_room THEN Append(translations, e)
                           ELSE translations
        /\ UNCHANGED <<stream, delivered>>
        /\ UNCHANGED <<cacheVars, sessionVars, historyVars, commandVars, syncVars,
                       noticeVars>>

\* Portal.get_by_twid returns to the handler of event e
HandlePortal(e) ==
    /\ handlers[e].pc = "portal"
    /\ stream[e].kind # "conversation"
    /\ handlers' = [handlers EXCEPT
           ![e].pc = AfterPortal(stream[e].kind,
                                 stream[e].conversation_id \in portal_mxid),
           ![e].had_room = stream[e].conversation_id \in portal_mxid]
    /\ UNCHANGED <<stream, delivered, translations, portal_mxid>>
    /\ UNCHANGED <<cacheVars, sessionVars, historyVars, commandVars, syncVars,
                   noticeVars>>

\* portal.create_matrix_room returns to handle_message or raises
\* (user.py:522); what a handler raises ends it
HandleRoomCreated(e, res) ==
    /\ handlers[e].pc = "create_room"
    /\ IF res = "ok"
       THEN /\ portal_mxid' = portal_mxid \cup {stream[e].conversation_id}
            /\ handlers' = [handlers EXCEPT ![e].pc = "sender",
                                            ![e].made_room = TRUE]
       ELSE /\ handlers' = [handlers EXCEPT ![e].pc = "done",
                                            ![e].raised = TRUE]
            /\ UNCHANGED portal_mxid
    /\ UNCHANGED <<stream, delivered, translations>>
    /\ UNCHANGED <<cacheVars, sessionVars, historyVars, commandVars, syncVars,
                   noticeVars>>

\* a faulty handle_message: the translation is called without the wait
AfterSenderNoWait(kind) == "translate"

\* what a handler awaits once it has the sender's puppet: handle_message
\* awaits portal.backfill_lock.wait(sender_id/message_id) before its
\* translation (user.py:525), the other handlers call theirs at once
AfterSender(kind) == IF kind = "message" THEN "backfill_wait" ELSE "translate"

\* Puppet.get_by_twid returns (user.py:523, 535, 553): handle_message goes
\* on to wait for the backfill lock, the other handlers call their
\* translation (handle_twitter_reaction_add/remove, handle_twitter_receipt)
HandleSender(e) ==
    /\ handlers[e].pc = "sender"
    /\ handlers' = [handlers EXCEPT ![e].pc = AfterSender(stream[e].kind)]
    /\ translations' = IF AfterSender(stream[e].kind) = "translate"
                       THEN Append(translations, e) ELSE translations
    /\ UNCHANGED <<stream, delivered, portal_mxid>>
    /\ UNCHANGED <<cacheVars, sessionVars, historyVars, commandVars, syncVars,
                   noticeVars>>

\* portal.backfill_lock.wait returns and handle_twitter_message is called
\* (user.py:525-526)
HandleBackfillWaited(e) ==
    /\ handlers[e].pc = "backfill_wait"
    /\ handlers' = [handlers EXCEPT ![e].pc = "translate",
                                    ![e].waited = TRUE]
    /\ translations' = Append(translations, e)
    /\ UNCHANGED <<stream, delivered, portal_mxid>>
    /\ UNCHANGED <<cacheVars, sessionVars, historyVars, commandVars, syncVars,
                   noticeVars>>

\* the translation returns or raises, and with it the handler
HandleTranslated(e, res) ==
    /\ handlers[e].pc = "translate"
    /\ handlers' = [handlers EXCEPT ![e].pc = "done",
                                    ![e].raised = (res = "error")]
    /\ UNCHANGED <<stream, delivered, translations, portal_mxid>>
    /\ UNCHANGED <<cacheVars, sessionVars, historyVars, commandVars, syncVars,
                   noticeVars>>

EventsIdle ==
    /\ stream = <<>>
    /\ delivered = 0
    /\ handlers = [e \in Events |-> IdleHandler]
    /\ translations = <<>>

-----------------------------------------------------------------------------
(* User.send_bridge_notice and User.get_notice_room, user.py:264-308.      *)

Notices == 1..MaxNotices

\* the room create_room makes for the notices
NoticeRoom == 1

IdleNotice == [pc |-> "idle", state_event |-> FALSE]

\* get_notice_room called by the holder of the send lock (user.py:264-281,
\* 305): with a room it returns at once and send_message is awaited;
\* without one it takes _notice_room_lock, finds the room still missing
\* and awaits create_room
WithSendLock(n, send) ==
    IF notice_room # None
    THEN [pc |-> "send", send |-> send, room |-> _notice_room_lock]
    ELSE [pc |-> "create_room", send |-> send,
          room |-> [_notice_room_lock EXCEPT !.holder = n]]

\* send_bridge_notice from its config test to the send lock
\* (user.py:292-304)
AfterPush(n) ==
    IF disable_bridge_notices
    THEN [pc |-> "done", send |-> _notice_send_lock,
          room |-> _notice_room_lock]
    ELSE IF _notice_send_lock.holder # None
    THEN [pc |-> "wait_send_lock",
          send |-> [_notice_send_lock EXCEPT !.waiters = Append(@, n)],
          room |-> _notice_room_lock]
    ELSE WithSendLock(n, [_notice_send_lock EXCEPT !.holder = n])

NoticeGoes(n, to, se) ==
    /\ notices' = [notices EXCEPT ![n] = [pc |-> to.pc, state_event |-> se]]
    /\ _notice_send_lock' = to.send
    /\ _notice_room_lock' = to.room

\* send_bridge_notice is called, with or without a state_event; with one
\* it first awaits push_bridge_state (user.py:290-291), which suspends the
\* call when the push goes over the network
SendBridgeNotice(n, se, suspends) ==
    /\ se \/ ~suspends
    /\ triggered' = Append(triggered, n)
    /\ IF suspends
       THEN /\ notices' = [notices EXCEPT ![n] =
                              [pc |-> "push", state_event |-> se]]
            /\ UNCHANGED <<_notice_send_lock, _notice_room_lock>>
       ELSE NoticeGoes(n, AfterPush(n), se)

\* a task calls send_bridge_notice
SendBridgeNoticeCall(n, se, suspends) ==
    /\ notices[n].pc = "idle"
    /\ \A m \in 1..(n - 1) : notices[m].pc # "idle"
    /\ SendBridgeNotice(n, se, suspends)
    /\ UNCHANGED <<notice_room, sent, disable_bridge_notices,
                   room_calls, errorVars>>
    /\ UNCHANGED <<cacheVars, sessionVars, historyVars, commandVars, syncVars,
                   portal_mxid, eventVars>>

\* push_bridge_state returns
NoticePushed(n) ==
    /\ notices[n].pc = "push"
    /\ NoticeGoes(n, AfterPush(n), notices[n].state_event)
    /\ UNCHANGED <<triggered, notice_room, sent, disable_bridge_notices,
                   room_calls, errorVars>>
    /\ UNCHANGED <<cacheVars, sessionVars, historyVars, commandVars, syncVars,
                   portal_mxid, eventVars>>

\* a call that queued for the send lock has been handed it
NoticeLockAcquired(n) ==
    /\ notices[n].pc = "wait_send_lock"
    /\ _notice_send_lock.holder = n
    /\ NoticeGoes(n, WithSendLock(n, _notice_send_lock),
                  notices[n].state_event)
    /\ UNCHANGED <<triggered, notice_room, sent, disable_bridge_notices,
                   room_calls, errorVars>>
    /\ UNCHANGED <<cacheVars, sessionVars, historyVars, commandVars, syncVars,
                   portal_mxid, eventVars>>

\* what a raise inside the two `async with` blocks leaves: both locks
\* released, the exception logged, the call over (user.py:306-308)
NoticeFailed(n) ==
    [pc |-> "done", send |-> Released(_notice_send_lock),
     room |-> IF _notice_room_lock.holder = n
              THEN Released(_notice_room_lock) ELSE _notice_room_lock]

\* create_room returns the new room, which is stored, and update() is
\* awaited (user.py:274-280); or it raises
NoticeRoomCreated(n, res) ==
    /\ notices[n].pc = "create_room"
    /\ IF res = "ok"
       THEN /\ notice_room' = NoticeRoom
            /\ notices' = [notices EXCEPT ![n].pc = "room_update"]
            /\ UNCHANGED <<_notice_send_lock, _notice_room_lock>>
       ELSE /\ NoticeGoes(n, NoticeFailed(n), notices[n].state_event)
            /\ UNCHANGED notice_room
    /\ UNCHANGED <<triggered, sent, disable_bridge_notices,
                   room_calls, errorVars>>
    /\ UNCHANGED <<cacheVars, sessionVars, historyVars, commandVars, syncVars,
                   portal_mxid, eventVars>>

\* update() returns: the room lock is released and send_message is awaited
\* (user.py:280-281, 305); or it raises
NoticeRoomUpdated(n, res) ==
    /\ notices[n].pc = "room_update"
    /\ IF res = "ok"
       THEN NoticeGoes(n, [pc |-> "send", send |-> _notice_send_lock,
                           room |-> Released(_notice_room_lock)],
                       notices[n].state_event)
       ELSE NoticeGoes(n, NoticeFailed(n), notices[n].state_event)
    /\ UNCHANGED <<triggered, notice_room, sent, disable_bridge_notices,
                   room_calls, errorVars>>
    /\ UNCHANGED <<cacheVars, sessionVars, historyVars, commandVars, syncVars,
                   portal_mxid, eventVars>>

\* send_message returns, the message is in the room and the send lock is
\* released (user.py:304-305); or it raises
NoticeSent(n, res) ==
    /\ notices[n].pc = "send"
    /\ sent' = IF res = "ok" THEN Append(sent, n) ELSE sent
    /\ NoticeGoes(n, [pc |-> "done", send |-> Released(_notice_send_lock),
                      room |-> _notice_room_lock],
                  notices[n].state_event)
    /\ UNCHANGED <<triggered, notice_room, disable_bridge_notices,
                   room_calls, errorVars>>
    /\ UNCHANGED <<cacheVars, sessionVars, historyVars, commandVars, syncVars,
                   portal_mxid, eventVars>>

-----------------------------------------------------------------------------
(* User.get_notice_room called by any task, user.py:264-281.               *)

RoomCallers == 1..MaxRoomCalls

\* a call: where it stands, the room its create_room returned, and what
\* the call returned
IdleRoomCall == [pc |-> "idle", made |-> None, result |-> None]

\* create_room returns a room that did not exist before
NewRoom == 1 + Cardinality({c \in RoomCallers : room_calls[c].made # None})

\* a faulty get_notice_room: the room is not looked at again inside the lock
EnteredRoomLockNoRecheck(room) == "create_room"

\* inside _notice_room_lock: `if self.notice_room: return self.notice_room`
\* (user.py:267-270), otherwise create_room is awaited
EnteredRoomLock(room) == IF room # None THEN "done" ELSE "create_room"

\* the call c goes on inside the lock it holds
InsideRoomLock(c, lock) ==
    IF EnteredRoomLock(notice_room) = "done"
    THEN /\ room_calls' = [room_calls EXCEPT ![c].pc = "done",
                                             ![c].result = notice_room]
         /\ _notice_room_lock' = Released(lock)
    ELSE /\ room_calls' = [room_calls EXCEPT ![c].pc = "create_room"]
         /\ _notice_room_lock' = lock

\* get_notice_room is called: with a room it returns it; without one it
\* enters _notice_room_lock or queues for it (user.py:265-266)
GetNoticeRoomCall(c) ==
    /\ room_calls[c].pc = "idle"
    /\ IF notice_room # None
       THEN /\ room_calls' = [room_calls EXCEPT ![c].pc = "done",
                                                ![c].result = notice_room]
            /\ UNCHANGED _notice_room_lock
       ELSE IF _notice_room_lock.holder = None
       THEN InsideRoomLock(c, [_notice_room_lock EXCEPT !.holder = c])
       ELSE /\ room_calls' = [room_calls EXCEPT ![c].pc = "wait_room_lock"]
            /\ _notice_room_lock' = [_notice_room_lock EXCEPT
                   !.waiters = Append(@, c)]
    /\ UNCHANGED <<notices, triggered, _notice_send_lock, notice_room, sent,
                   disable_bridge_notices, errorVars>>
    /\ UNCHANGED <<cacheVars, sessionVars, historyVars, commandVars, syncVars,
                   portal_mxid, eventVars>>

\* a call that queued for the room lock has been handed it
GetNoticeRoomAcquired(c) ==
    /\ room_calls[c].pc = "wait_room_lock"
    /\ _notice_room_lock.holder = c
    /\ InsideRoomLock(c, _notice_room_lock)
    /\ UNCHANGED <<notices, triggered, _notice_send_lock, notice_room, sent,
                   disable_bridge_notices, errorVars>>
    /\ UNCHANGED <<cacheVars, sessionVars, historyVars, commandVars, syncVars,
                   portal_mxid, eventVars>>

\* create_room returns the new room, which is stored, and update() is
\* awaited (user.py:274-280); or it raises, which releases the lock and
\* ends the call
GetNoticeRoomCreated(c, res) ==
    /\ room_calls[c].pc = "create_room"
    /\ IF res = "ok"
       THEN /\ notice_room' = NewRoom
            /\ room_calls' = [room_calls EXCEPT ![c].pc = "room_update",
                                                ![c].made = NewRoom]
            /\ UNCHANGED _notice_room_lock
       ELSE /\ room_calls' = [room_calls EXCEPT ![c].pc = "raised"]
            /\ _notice_room_lock' = Released(_notice_room_lock)
            /\ UNCHANGED notice_room
    /\ UNCHANGED <<notices, triggered, _notice_send_lock, sent,
                   disable_bridge_notices, errorVars>>
    /\ UNCHANGED <<cacheVars, sessionVars, historyVars, commandVars, syncVars,
                   portal_mxid, eventVars>>

\* update() has written the row and returns, the lock is released and
\* `return self.notice_room` is reached (user.py:280-281); or it raises
GetNoticeRoomUpdated(c, res) ==
    /\ room_calls[c].pc = "room_update"
    /\ _notice_room_lock' = Released(_notice_room_lock)
    /\ IF res = "ok"
       THEN /\ Update(client, twid)
            /\ room_calls' = [room_calls EXCEPT ![c].pc = "done",
                                                ![c].result = notice_room]
       ELSE /\ room_calls' = [room_calls EXCEPT ![c].pc = "raised"]
            /\ UNCHANGED <<auth_token, csrf_token, poll_cursor, db_user>>
    /\ UNCHANGED <<client, twid, _connected, _intentional_stop,
                   _connect_task, clients, conns, lockers, stopper, logouter,
                   disc_pending, by_twid, cacheRest, historyVars,
                   commandVars>>
    /\ UNCHANGED <<notices, triggered, _notice_send_lock, notice_room, sent,
                   disable_bridge_notices, errorVars>>
    /\ UNCHANGED <<syncVars, portal_mxid, eventVars>>

-----------------------------------------------------------------------------
(* User.on_error, user.py:310-338, the handler of PollingErrored.          *)

ErrorCalls == 1..MaxErrors

\* what the handler reads of a PollingErrored event: evt.fatal, whether
\* evt.error is a TwitterAuthError, evt.count
PollingErrored ==
    [fatal : BOOLEAN, auth : BOOLEAN, count : 1..MaxErrorCount]

\* user.py:334: `if evt.count < 5`
ErrorThreshold == 5

IdleError == [pc |-> "idle",
              evt |-> [fatal |-> FALSE, auth |-> FALSE, count |-> 1],
              pushes |-> <<>>]

\* a faulty on_error: the health state does not depend on the error count
OnErrorNoThreshold(evt, notices_on) ==
    IF evt.fatal
    THEN IF evt.auth
         THEN [push |-> "BAD_CREDENTIALS", notice |-> TRUE,
               state_event |-> "none"]
         ELSE [push |-> "none", notice |-> TRUE,
               state_event |-> "UNKNOWN_ERROR"]
    ELSE IF evt.count = 1 /\ notices_on
    THEN [push |-> "none", notice |-> TRUE,
          state_event |-> "TRANSIENT_DISCONNECT"]
    ELSE [push |-> "TRANSIENT_DISCONNECT", notice |-> FALSE,
          state_event |-> "none"]

\* the branches of on_error: the health state it pushes itself, whether it
\* calls send_bridge_notice, and the state_event it passes to it.
\* notices_on is config bridge.temporary_disconnect_notices.
OnError(evt, notices_on) ==
    IF evt.fatal
    THEN IF evt.auth
         THEN [push |-> "BAD_CREDENTIALS", notice |-> TRUE,
               state_event |-> "none"]
         ELSE [push |-> "none", notice |-> TRUE,
               state_event |-> "UNKNOWN_ERROR"]
    ELSE IF evt.count = 1 /\ notices_on
    THEN [push |-> "none", notice |-> TRUE,
          state_event |-> "TRANSIENT_DISCONNECT"]
    ELSE [push |-> IF evt.count < ErrorThreshold
                   THEN "TRANSIENT_DISCONNECT" ELSE "UNKNOWN_ERROR",
          notice |-> FALSE, state_event |-> "none"]

\* on_error is called with an event and runs to its first await: its own
\* push_bridge_state (user.py:312-316, 337), or send_bridge_notice, which
\* pushes the state_event it is given before anything else (290-291)
OnErrorCall(n, evt, suspends) ==
    LET does == OnError(evt, temporary_disconnect_notices)
    IN  /\ errors[n].pc = "idle"
        /\ \A m \in 1..(n - 1) : errors[m].pc # "idle"
        /\ IF does.push # "none"
           THEN /\ ~suspends
                /\ errors' = [errors EXCEPT ![n] =
                       [pc |-> "push", evt |-> evt,
                        pushes |-> <<does.push>>]]
                /\ UNCHANGED <<notices, triggered, _notice_send_lock,
                               _notice_room_lock>>
           ELSE /\ errors' = [errors EXCEPT ![n] =
                       [pc |-> "notice", evt |-> evt,
                        pushes |-> <<does.state_event>>]]
                /\ SendBridgeNotice(n, TRUE, suspends)
        /\ UNCHANGED <<notice_room, sent, disable_bridge_notices,
                       room_calls, temporary_disconnect_notices>>
        /\ UNCHANGED <<cacheVars, sessionVars, historyVars, commandVars, syncVars,
                       portal_mxid, eventVars>>

\* on_error's own push_bridge_state returns: the notice of an
\* authentication error is sent (user.py:317-319), the other branch is over
OnErrorPushed(n) ==
    LET does == OnError(errors[n].evt, temporary_disconnect_notices)
    IN  /\ errors[n].pc = "push"
        /\ IF does.notice
           THEN /\ errors' = [errors EXCEPT ![n].pc = "notice"]
                /\ SendBridgeNotice(n, FALSE, FALSE)
           ELSE /\ errors' = [errors EXCEPT ![n].pc = "done"]
                /\ UNCHANGED <<notices, triggered, _notice_send_lock,
                               _notice_room_lock>>
        /\ UNCHANGED <<notice_room, sent, disable_bridge_notices,
                       room_calls, temporary_disconnect_notices>>
        /\ UNCHANGED <<cacheVars, sessionVars, historyVars, commandVars, syncVars,
                       portal_mxid, eventVars>>

ErrorsIdle ==
    /\ errors = [n \in ErrorCalls |-> IdleError]
    /\ temporary_disconnect_notices = FALSE

NoticeIdle ==
    /\ ErrorsIdle
    /\ room_calls = [c \in RoomCallers |-> IdleRoomCall]
    /\ notices = [n \in Notices |-> IdleNotice]
    /\ triggered = <<>>
    /\ _notice_send_lock = FreeLock
    /\ _notice_room_lock = FreeLock
    /\ notice_room = None
    /\ sent = <<>>
    /\ disable_bridge_notices = FALSE

-----------------------------------------------------------------------------
(* The set-notice-room command, commands/conn.py:29-32: the room of the    *)
(* command becomes the notice room and update() writes the row.            *)

SetNoticeRoom ==
    /\ notice_room' = NoticeRoom
    /\ Update(client, twid)
    /\ UNCHANGED <<client, twid, _connected, _intentional_stop,
                   _connect_task, clients, conns, lockers, stopper, logouter,
                   disc_pending, by_twid, cacheRest, historyVars,
                   commandVars>>
    /\ UNCHANGED <<syncVars, portal_mxid, eventVars, notices, triggered,
                   _notice_send_lock, _notice_room_lock, sent,
                   disable_bridge_notices, room_calls, errorVars>>

-----------------------------------------------------------------------------
(* The initial values: the state after the process has started and the     *)
(* Session has been constructed (user.py:95-122) from its row.             *)

CacheIdle ==
    /\ objs = <<>>
    /\ by_mxid = [m \in Mxids |-> None]
    /\ _async_get_locks = [m \in Mxids |-> FreeLock]
    /\ getters = [g \in Getters |-> IdleGetter]
    /\ db_loads = [m \in Mxids |-> 0]
    /\ twid_getters = [g \in TwidGetters |-> IdleTwidGetter]
    /\ _twid_get_locks = [t \in Twids |-> FreeLock]
    /\ lister = IdleLister

SessionOf(row) ==
    /\ client = None
    /\ twid = row.twid
    /\ auth_token = row.auth_token
    /\ csrf_token = row.csrf_token
    /\ poll_cursor = row.poll_cursor
    /\ _connected = FALSE
    /\ _intentional_stop = FALSE
    /\ _connect_task = None
    /\ clients = [c \in Conns |-> NoClient]
    /\ conns = [a \in Conns |-> FreeConn]
    /\ lockers = [k \in Lockers |-> IdleLocker]
    /\ stopper = "idle"
    /\ logouter = NoLogout
    /\ disc_pending = FALSE
    /\ after_stop = None
    /\ stop_since_connect = FALSE
    /\ last_disc = NoDisc
    /\ logout_post = NoLogoutPost
    /\ _is_logged_in = "None"
    /\ pings = [p \in Pings |-> IdlePing]
    /\ syncer = IdleSyncer

WorkIdle ==
    /\ SyncIdle
    /\ portal_mxid = {}
    /\ EventsIdle
    /\ NoticeIdle

-----------------------------------------------------------------------------
(* SpecCache: the identity cache on its own, any get_by_mxid calls.        *)

InitCache ==
    /\ db_user \in [Mxids -> {NoRow, LoggedOutRow} \cup
                       {Row(t, t, t, None) : t \in Twids}]
    /\ \A m \in GhostMxids : db_user[m] = NoRow
    /\ by_twid = [t \in Twids |-> None]
    /\ CacheIdle
    /\ SessionOf(LoggedOutRow)
    /\ WorkIdle

NextCache ==
    \/ \E g \in Getters, m \in Mxids, cr \in BOOLEAN : GetByMxidCall(g, m, cr)
    \/ \E g \in Getters : GetByMxidAcquired(g)
    \/ \E g \in Getters : GetByMxidLoaded(g)
    \/ \E g \in Getters : GetByMxidInserted(g)

SpecCache == InitCache /\ [][NextCache]_vars

(* SpecLookups: get_by_mxid, get_by_twid and all_logged_in together.       *)
NextLookups ==
    \/ \E g \in 1..LookupGetters, m \in Mxids, cr \in BOOLEAN :
           GetByMxidCall(g, m, cr)
    \/ \E g \in 1..LookupGetters : GetByMxidAcquired(g)
    \/ \E g \in 1..LookupGetters : GetByMxidLoaded(g)
    \/ \E g \in 1..LookupGetters : GetByMxidInserted(g)
    \/ \E g \in TwidGetters, t \in Twids : GetByTwidCall(g, t)
    \/ \E g \in TwidGetters : GetByTwidAcquired(g)
    \/ \E g \in TwidGetters : GetByTwidMissed(g)
    \/ \E g \in TwidGetters, m \in Mxids : GetByTwidLoaded(g, m)
    \/ AllLoggedInCall
    \/ AllLoggedInLoaded

SpecLookups == InitCache /\ [][NextLookups]_vars

-----------------------------------------------------------------------------
(* The Session of SelfMxid was loaded from its row, logged out or logged   *)
(* in as account 1; the other local id is logged in as account 2.          *)

InitSession ==
    /\ db_user \in [Mxids -> {NoRow, LoggedOutRow} \cup LoggedInRows]
    /\ db_user[SelfMxid] \in {LoggedOutRow, Row(1, 1, 1, None),
                              Row(1, 1, 1, RespCursor)}
    /\ db_user[OtherMxid] = Row(2, 2, 2, None)
    /\ \A m \in GhostMxids : db_user[m] = NoRow
    /\ by_twid = [t \in Twids |->
                    IF t = db_user[SelfMxid].twid THEN SelfObj ELSE None]
    /\ CacheIdle
    /\ SessionOf(db_user[SelfMxid])
    /\ WorkIdle

ConnectSteps ==
    \/ \E a \in Conns : ConnectBegin(a)
    \/ \E a \in Conns, res \in {"ok", "auth_error", "error"} :
           ConnectIdentified(a, res)
    \/ \E a \in Conns, res \in {"ok", "error"} : ConnectSettings(a, res)
    \/ \E a \in Conns, res \in {"ok", "error"} : ConnectLookedUp(a, res)
    \/ \E a \in Conns, res \in {"ok", "error"} : ConnectUpdated(a, res)
    \/ \E a \in Conns : SyncBegin(a)
    \/ \E a \in Conns, res \in {"ok", "error"} : SyncInbox(a, res)
    \/ \E a \in Conns : SyncFinished(a)

\* the steps of the _connect call a and of its initial sync
ConnectStep(a) ==
    \/ ConnectBegin(a)
    \/ \E res \in {"ok", "auth_error", "error"} : ConnectIdentified(a, res)
    \/ \E res \in {"ok", "error"} : ConnectSettings(a, res)
    \/ \E res \in {"ok", "error"} : ConnectLookedUp(a, res)
    \/ \E res \in {"ok", "error"} : ConnectUpdated(a, res)
    \/ SyncBegin(a)
    \/ \E res \in {"ok", "error"} : SyncInbox(a, res)
    \/ SyncFinished(a)

LockerSteps(maxk, maxc) ==
    \/ \E k \in 1..maxk, cr \in Creds : LockedConnectCall(k, cr, maxc)
    \/ \E k \in 1..maxk : LockedConnectReturn(k)

(* SpecReconnect: locked_connect callers and the connects they start.      *)
NextReconnect ==
    \/ LockerSteps(MaxLockers, MaxConns)
    \/ ConnectSteps

SpecReconnect == InitSession /\ [][NextReconnect]_vars

(* SpecSession: the whole life of one Session.                             *)
NextSession ==
    \/ TryConnect
    \/ LockerSteps(SessLockers, SessConns)
    \/ ConnectSteps
    \/ StopCall
    \/ StopReturn
    \/ LogoutCall
    \/ LogoutClear
    \/ LogoutReturn
    \/ StopPollingCommand
    \/ \E c \in Conns : ReportStarted(c)
    \/ \E c \in Conns, fatal \in BOOLEAN : ReportErrored(c, fatal)
    \/ \E c \in Conns : ReportStopped(c)
    \/ OnDisconnectResume

SpecSession == InitSession /\ [][NextSession]_vars

(* SpecLive: SpecSession's connects, stop and logout, with fairness: the   *)
(* event loop runs every task that can run, and every remote or database   *)
(* call a _connect or its initial sync awaits returns or raises, so a      *)
(* _connect call that can take a step does take one.                       *)
NextLive ==
    \/ TryConnect
    \/ LockerSteps(SessLockers, SessConns)
    \/ ConnectSteps
    \/ StopCall
    \/ StopReturn
    \/ LogoutCall
    \/ LogoutClear
    \/ LogoutReturn

Fairness == \A a \in Conns : WF_vars(ConnectStep(a))

SpecLive == InitSession /\ [][NextLive]_vars /\ Fairness

(* SpecLogin: one Session under connects and is_logged_in calls.           *)
NextLogin ==
    \/ TryConnect
    \/ LockerSteps(SessLockers, SessConns)
    \/ ConnectSteps
    \/ \E p \in Pings : IsLoggedInCall(p)
    \/ \E p \in Pings, res \in {"ok", "none", "error"} :
           IsLoggedInChecked(p, res)

SpecLogin == InitSession /\ [][NextLogin]_vars

(* SpecResync: one Session that connects, polls and is told to sync.       *)
NextResync ==
    \/ TryConnect
    \/ LockerSteps(SessLockers, SessConns)
    \/ ConnectSteps
    \/ \E c \in Conns : ReportStarted(c)
    \/ \E c \in Conns : PollAdvanced(c)
    \/ SyncCommandCall
    \/ \E res \in {"ok", "error"} : SyncCommandInbox(res)

SpecResync == InitSession /\ [][NextResync]_vars

(* SpecRecord: the persisted row of the Session under connects, stop,      *)
(* logout and the set-notice-room command.                                 *)
NextRecord ==
    \/ TryConnect
    \/ LockerSteps(SessLockers, SessConns)
    \/ ConnectSteps
    \/ StopCall
    \/ StopReturn
    \/ LogoutCall
    \/ LogoutClear
    \/ LogoutReturn
    \/ SetNoticeRoom

SpecRecord == InitSession /\ [][NextRecord]_vars

-----------------------------------------------------------------------------
(* The other specifications start from a Session that was loaded from the  *)
(* row of account 1 and is left alone.                                     *)

Standby ==
    /\ db_user = [m \in Mxids |->
                    IF m = SelfMxid THEN Row(1, 1, 1, None) ELSE NoRow]
    /\ by_twid = [t \in Twids |-> IF t = 1 THEN SelfObj ELSE None]
    /\ CacheIdle
    /\ SessionOf(db_user[SelfMxid])

(* SpecSync: one sync() run over any inbox, limit and set of rooms.        *)
InitSync ==
    /\ Standby
    /\ inbox \in Inboxes
    /\ initial_conversation_sync \in -1..MaxConvs
    /\ portal_mxid \in SUBSET (1..Len(inbox))
    /\ conversations = <<>>
    /\ limit = 0
    /\ index = 0
    /\ sync_at = 1
    /\ sync_pc = "idle"
    /\ handled = <<>>
    /\ EventsIdle
    /\ NoticeIdle

NextSync ==
    \/ SyncCall
    \/ SyncFetched
    \/ \E res \in {"ok", "error"} : SyncConversation(res)
    \/ SyncDirectChats

SpecSync == InitSync /\ [][NextSync]_vars

(* SpecEvents: the adapter delivers any stream of events to the handlers.  *)
InitEvents ==
    /\ Standby
    /\ SyncIdle
    /\ portal_mxid \in SUBSET EventConvs
    /\ stream \in Streams
    /\ delivered = 0
    /\ handlers = [e \in Events |-> IdleHandler]
    /\ translations = <<>>
    /\ NoticeIdle

NextEvents ==
    \/ Dispatch
    \/ \E e \in Events : HandlePortal(e)
    \/ \E e \in Events, res \in {"ok", "error"} : HandleConversation(e, res)
    \/ \E e \in Events, res \in {"ok", "error"} : HandleRoomCreated(e, res)
    \/ \E e \in Events : HandleSender(e)
    \/ \E e \in Events : HandleBackfillWaited(e)
    \/ \E e \in Events, res \in {"ok", "error"} : HandleTranslated(e, res)

SpecEvents == InitEvents /\ [][NextEvents]_vars

(* SpecNotice: any send_bridge_notice calls on one Session.                *)
InitNotice ==
    /\ Standby
    /\ SyncIdle
    /\ portal_mxid = {}
    /\ EventsIdle
    /\ notices = [n \in Notices |-> IdleNotice]
    /\ triggered = <<>>
    /\ _notice_send_lock = FreeLock
    /\ _notice_room_lock = FreeLock
    /\ notice_room \in {None, NoticeRoom}
    /\ sent = <<>>
    /\ disable_bridge_notices \in BOOLEAN
    /\ room_calls = [c \in RoomCallers |-> IdleRoomCall]
    /\ ErrorsIdle

NextNotice ==
    \/ \E n \in Notices, se \in BOOLEAN, suspends \in BOOLEAN :
           SendBridgeNoticeCall(n, se, suspends)
    \/ \E n \in Notices : NoticePushed(n)
    \/ \E n \in Notices : NoticeLockAcquired(n)
    \/ \E n \in Notices, res \in {"ok", "error"} : NoticeRoomCreated(n, res)
    \/ \E n \in Notices, res \in {"ok", "error"} : NoticeRoomUpdated(n, res)
    \/ \E n \in Notices, res \in {"ok", "error"} : NoticeSent(n, res)

SpecNotice == InitNotice /\ [][NextNotice]_vars

(* SpecNoticeRoom: any get_notice_room calls on one Session that has no    *)
(* notice room.                                                            *)
InitNoticeRoom ==
    /\ Standby
    /\ SyncIdle
    /\ portal_mxid = {}
    /\ EventsIdle
    /\ NoticeIdle

NextNoticeRoom ==
    \/ \E c \in RoomCallers : GetNoticeRoomCall(c)
    \/ \E c \in RoomCallers : GetNoticeRoomAcquired(c)
    \/ \E c \in RoomCallers, res \in {"ok", "error"} :
           GetNoticeRoomCreated(c, res)
    \/ \E c \in RoomCallers, res \in {"ok", "error"} :
           GetNoticeRoomUpdated(c, res)

SpecNoticeRoom == InitNoticeRoom /\ [][NextNoticeRoom]_vars

(* SpecError: the poll loop reports errors to on_error, under any          *)
(* configuration of the notices.                                           *)
InitError ==
    /\ Standby
    /\ SyncIdle
    /\ portal_mxid = {}
    /\ EventsIdle
    /\ notices = [n \in Notices |-> IdleNotice]
    /\ triggered = <<>>
    /\ _notice_send_lock = FreeLock
    /\ _notice_room_lock = FreeLock
    /\ notice_room \in {None, NoticeRoom}
    /\ sent = <<>>
    /\ disable_bridge_notices \in BOOLEAN
    /\ room_calls = [c \in RoomCallers |-> IdleRoomCall]
    /\ errors = [n \in ErrorCalls |-> IdleError]
    /\ temporary_disconnect_notices \in BOOLEAN

NextError ==
    \/ \E n \in ErrorCalls, evt \in PollingErrored, suspends \in BOOLEAN :
           OnErrorCall(n, evt, suspends)
    \/ \E n \in ErrorCalls : OnErrorPushed(n)
    \/ \E n \in Notices : NoticePushed(n)
    \/ \E n \in Notices : NoticeLockAcquired(n)
    \/ \E n \in Notices, res \in {"ok", "error"} : NoticeRoomCreated(n, res)
    \/ \E n \in Notices, res \in {"ok", "error"} : NoticeRoomUpdated(n, res)
    \/ \E n \in Notices, res \in {"ok", "error"} : NoticeSent(n, res)

SpecError == InitError /\ [][NextError]_vars

-----------------------------------------------------------------------------
(* C1: concurrent get_by_mxid(k) calls for one non-ghost local id share    *)
(* one instance and one construction.                                      *)

ObjsOf(mxid) == {i \in 1..Len(objs) : objs[i].mxid = mxid}

DoneFor(mxid) == {g \in Getters : getters[g].pc = "done" /\ getters[g].mxid = mxid}

\* C1: for every non-ghost local id k, whatever the interleaving of the
\* get_by_mxid(k) calls: at most one User instance is ever constructed for k
\* (from a loaded row or for an insert), every caller that receives an
\* instance receives that one, a caller with create set always receives it,
\* and as long as every call for k has create set only one SELECT is sent.
C1_SingleFlight ==
    \A k \in UserMxids :
        /\ Cardinality(ObjsOf(k)) <= 1
        /\ \A g \in DoneFor(k) :
              /\ getters[g].result # None => ObjsOf(k) = {getters[g].result}
              /\ getters[g].create => getters[g].result # None
        /\ (\A g \in Getters :
               (getters[g].pc # "idle" /\ getters[g].mxid = k)
                   => getters[g].create)
              => db_loads[k] <= 1

\* Three calls for the same id were in flight together (two of them queued
\* behind the first) and all three have returned the same instance.
C1_Witness ==
    \E k \in UserMxids :
        /\ DoneFor(k) = Getters
        /\ Cardinality({g \in Getters : getters[g].waited}) = MaxGetters - 1
        /\ \A g \in Getters : getters[g].result # None
        /\ Cardinality(ObjsOf(k)) = 1

-----------------------------------------------------------------------------
(* C2, C3: locked_connect is single-flight.                                *)

\* the _connect tasks made by locked_connect that are not done
InFlight == {a \in Conns : /\ conns[a].pc # "free"
                           /\ conns[a].by # None
                           /\ ~TaskDone(a)}

\* the callers that found the task t running when they called
JoinedTo(t) == {k \in Lockers : lockers[k].pc # "idle"
                                /\ lockers[k].in_flight = t}

C3_OneInFlight == Cardinality(InFlight) <= 1

-----------------------------------------------------------------------------
(* C4: one live client per Session.                                        *)

\* C4: no client other than the installed one has a poll loop that runs or
\* has yet to report that it stopped.
C4_OneLiveClient ==
    \A c \in Conns : (client # None /\ c # client) => clients[c].poll = "idle"

-----------------------------------------------------------------------------
(* C5, C6: the health push of on_disconnect.                               *)

\* C5: when stop() was called on a Session whose client was polling and
\* the next connection event is connection-stopped, on_disconnect pushes no
\* twitter-not-connected state.
C5_NoPushAfterStop ==
    (last_disc.evt = "stopped" /\ last_disc.after_stop # None)
        => ~last_disc.pushed

\* C6: a connection-stopped report that no stop() or logout() call
\* preceded since the last successful connect makes on_disconnect push the
\* twitter-not-connected state.
C6_PushWhenUnexpected ==
    (last_disc.evt = "stopped" /\ ~last_disc.stop_since_connect)
        => last_disc.pushed

\* The poll loop of a connected Session was halted by the stop-polling
\* command, not by stop() or logout(), and the report was pushed.
C6_Witness ==
    /\ last_disc.evt = "stopped"
    /\ ~last_disc.stop_since_connect
    /\ last_disc.pushed
    /\ stopper = "idle"
    /\ logouter.pc = "idle"

-----------------------------------------------------------------------------
(* C7: the rooms the initial sync makes.                                   *)

\* the handler calls of sync() that carried create_portal
Requested == {i \in 1..Len(handled) : handled[i].create_portal}

TrustedFetched == {i \in 1..Len(inbox) : inbox[i].trusted}

Min(a, b) == IF a < b THEN a ELSE b

\* C7: when sync() has run with limit L (negative: no limit), every
\* fetched conversation was passed once to handle_conversation_update, in
\* descending sort_timestamp order; the calls that asked for a room are
\* those of the first min(L, number of trusted conversations) trusted
\* conversations of that order, never an untrusted one; and a conversation
\* has a room exactly when it had one before or its call asked for one and
\* did not raise.
C7_SyncBudget ==
    sync_pc = "done" =>
        /\ Len(handled) = Len(inbox)
        /\ {handled[i].conversation : i \in 1..Len(handled)}
               = {inbox[i] : i \in 1..Len(inbox)}
        /\ \A i, j \in 1..Len(handled) :
               i < j => handled[i].conversation.sort_timestamp
                            >= handled[j].conversation.sort_timestamp
        /\ \A i \in Requested : handled[i].conversation.trusted
        /\ Cardinality(Requested) =
               IF initial_conversation_sync < 0
               THEN Cardinality(TrustedFetched)
               ELSE Min(initial_conversation_sync, Cardinality(TrustedFetched))
        /\ \A i \in 1..Len(handled) :
               (handled[i].conversation.trusted /\ i \notin Requested)
                   => \A r \in Requested : r < i
        /\ \A i \in 1..Len(handled) :
               handled[i].conversation.conversation_id \in portal_mxid
                   <=> \/ handled[i].had_room
                       \/ i \in Requested /\ handled[i].outcome = "ok"

\* A sync with limit 1 over three conversations without rooms: the newest
\* is untrusted, the other two are trusted, no call raised, and the one
\* room made is that of the newer trusted conversation.
C7_Witness ==
    /\ sync_pc = "done"
    /\ initial_conversation_sync = 1
    /\ Len(handled) = 3
    /\ \A i \in 1..3 : ~handled[i].had_room /\ handled[i].outcome = "ok"
    /\ ~handled[1].conversation.trusted
    /\ handled[2].conversation.trusted
    /\ handled[3].conversation.trusted
    /\ handled[1].conversation.sort_timestamp
           > handled[2].conversation.sort_timestamp
    /\ handled[2].conversation.sort_timestamp
           > handled[3].conversation.sort_timestamp
    /\ portal_mxid = {handled[2].conversation.conversation_id}

-----------------------------------------------------------------------------
(* C8: translations keep the order of delivery within a conversation.      *)

-----------------------------------------------------------------------------
(* C9: bridge notices reach the notice room in the order of their calls.   *)

PosIn(s, x) == CHOOSE i \in 1..Len(s) : s[i] = x

\* the calls that are between taking and releasing the send lock
InSendSection == {n \in Notices :
                     notices[n].pc \in {"create_room", "room_update", "send"}}

\* C9: of two notices that both reached the room, the one whose
\* send_bridge_notice call was made first reached it first; and at most one
\* call at a time is resolving the room or sending.
C9_NoticesInOrder ==
    /\ \A i, j \in 1..Len(sent) :
           i < j => PosIn(triggered, sent[i]) < PosIn(triggered, sent[j])
    /\ Cardinality(InSendSection) <= 1

-----------------------------------------------------------------------------
(* C10: what logout() leaves behind.                                       *)

\* C10: when logout() returns, twid, the tokens and the cursor are unset
\* in the instance and in its row, by_twid has no entry for the old remote
\* id, and get_by_twid(old id) returns None.
C10_LogoutClears ==
    logout_post.done =>
        /\ logout_post.twid = None
        /\ logout_post.auth_token = None
        /\ logout_post.csrf_token = None
        /\ logout_post.poll_cursor = None
        /\ logout_post.row = LoggedOutRow
        /\ logout_post.cached = None
        /\ logout_post.lookup = "none"

-----------------------------------------------------------------------------
(* C11: the persisted row has a remote id exactly when it has tokens.      *)

\* no _connect call is between its start and its return
NoConnectRunning ==
    \A a \in Conns : conns[a].pc \in
        {"free", "end", "sync_new", "sync_inbox", "sync_convs"}

\* C11: whenever no connect is running, the row of the Session has twid
\* set if and only if it has auth_token and csrf_token set.
C11_RecordConsistent ==
    NoConnectRunning =>
        (db_user[SelfMxid].twid # None
            <=> /\ db_user[SelfMxid].auth_token # None
                /\ db_user[SelfMxid].csrf_token # None)

-----------------------------------------------------------------------------
(* C12: try_connect answers every failure of its connect with one push.    *)

\* the _connect calls made by try_connect that have ended
TriedEnded == {a \in Conns : conns[a].pc = "end" /\ conns[a].by = None}

\* C12: when the _connect of try_connect has raised, try_connect has
\* raised nothing and pushed exactly one health state: BAD_CREDENTIALS for
\* an authentication error, UNKNOWN_ERROR for any other exception; when it
\* returned, try_connect pushed nothing.
C12_TryConnectCatches ==
    \A a \in TriedEnded :
        /\ ~conns[a].tried.raises
        /\ conns[a].outcome = "auth_error"
               => conns[a].tried.pushes = <<"BAD_CREDENTIALS">>
        /\ conns[a].outcome = "error"
               => conns[a].tried.pushes = <<"UNKNOWN_ERROR">>
        /\ conns[a].outcome = "ok" => conns[a].tried.pushes = <<>>

\* The connect of try_connect had installed its client and then failed in
\* get_info or update(): try_connect pushed UNKNOWN_ERROR and returned.
C12_Witness ==
    \E a \in TriedEnded :
        /\ conns[a].outcome = "error"
        /\ client = a
        /\ conns[a].tried = [pushes |-> <<"UNKNOWN_ERROR">>, raises |-> FALSE]

-----------------------------------------------------------------------------
(* C13: a reaction or a receipt for a conversation without a room.         *)

\* the handler of event e got a portal without a room
NoRoomFor(e) == handlers[e].pc \notin {"idle", "portal"} /\ ~handlers[e].had_room

\* C13: the handler of a reaction-added, reaction-removed or receipt event
\* whose portal has no room returns at once: it calls no translation, it
\* makes no room, it raises nothing.
C13_DroppedWithoutRoom ==
    \A e \in 1..Len(stream) :
        (/\ stream[e].kind \in {"reaction_add", "reaction_remove", "receipt"}
         /\ NoRoomFor(e))
            => /\ handlers[e].pc = "done"
               /\ \A i \in 1..Len(translations) : translations[i] # e
               /\ ~handlers[e].made_room
               /\ ~handlers[e].raised
               /\ stream[e].conversation_id \in portal_mxid
                      => \E d \in 1..Len(stream) :
                             /\ stream[d].conversation_id
                                    = stream[e].conversation_id
                             /\ handlers[d].made_room

\* A reaction-added, a reaction-removed and a receipt event of one
\* conversation without a room were delivered and dropped.
C13_Witness ==
    /\ Len(stream) = 3
    /\ {stream[e].kind : e \in Events}
           = {"reaction_add", "reaction_remove", "receipt"}
    /\ \A e \in Events : handlers[e].pc = "done" /\ NoRoomFor(e)
    /\ translations = <<>>
    /\ portal_mxid = {}

-----------------------------------------------------------------------------
(* C14: get_by_mxid never makes a ghost a user.                            *)

\* C14: a get_by_mxid call for the local id of a ghost returns None at
\* once, whatever `create` is: it sends no SELECT and no INSERT, so a ghost
\* id has no row, no instance and no by_mxid entry.
C14_GhostsNeverUsers ==
    \A m \in GhostMxids :
        /\ db_loads[m] = 0
        /\ db_user[m] = NoRow
        /\ ObjsOf(m) = {}
        /\ by_mxid[m] = None
        /\ \A g \in Getters :
               getters[g].mxid = m
                   => getters[g].pc = "done" /\ getters[g].result = None

\* Two calls for a ghost id have returned, one of them with create set,
\* while a call for a user id made that user's instance.
C14_Witness ==
    \E m \in GhostMxids, g, h, u \in Getters :
        /\ g # h
        /\ getters[g].mxid = m /\ getters[g].pc = "done" /\ getters[g].create
        /\ getters[h].mxid = m /\ getters[h].pc = "done" /\ ~getters[h].create
        /\ getters[u].mxid \in UserMxids /\ getters[u].pc = "done"
        /\ getters[u].result # None

-----------------------------------------------------------------------------
(* C15: concurrent get_notice_room calls make one room.                    *)

\* the rooms that create_room calls of get_notice_room have returned
RoomsMade == {room_calls[c].made : c \in RoomCallers} \ {None}

\* C15: whatever the number of get_notice_room calls running at once on a
\* Session without a notice room, at most one create_room call succeeds,
\* and the calls that return all return the room it made.
C15_OneNoticeRoom ==
    /\ Cardinality({c \in RoomCallers : room_calls[c].made # None}) <= 1
    /\ \A c \in RoomCallers :
           room_calls[c].pc = "done"
               => /\ room_calls[c].result # None
                  /\ RoomsMade = {room_calls[c].result}

\* Three calls ran at once: the first failed in create_room, the second,
\* which had queued for the lock, made the room, and the third, which
\* queued behind it, returned that room without making one.
C15_Witness ==
    \E a, b, c \in RoomCallers :
        /\ room_calls[a].pc = "raised" /\ room_calls[a].made = None
        /\ room_calls[b].pc = "done" /\ room_calls[b].made # None
        /\ room_calls[c].pc = "done" /\ room_calls[c].made = None
        /\ room_calls[c].result = room_calls[b].made

-----------------------------------------------------------------------------
(* C16: locked_connect with the credentials in use.                        *)

\* the step is the call of locked_connect by caller k with the tokens the
\* Session holds, made while no task of locked_connect is running
CallsWithTokensInUse(k) ==
    /\ lockers[k].pc = "idle"
    /\ lockers'[k].pc # "idle"
    /\ lockers'[k].auth_token = auth_token
    /\ lockers'[k].csrf_token = csrf_token
    /\ ~(_connect_task # None /\ ~TaskDone(_connect_task))

\* C16: a locked_connect call with the auth_token and csrf_token the Session
\* holds, made while no task of locked_connect is running, returns at once
\* and changes nothing: no client is made, no _connect is started (so no
\* remote call is made), and the Session's fields, the by_twid cache and
\* the persisted rows stay as they are.
C16_TokensInUseNoOp ==
    [][\A k \in Lockers :
          CallsWithTokensInUse(k)
              => /\ lockers'[k].pc = "done"
                 /\ lockers'[k].task = None
                 /\ UNCHANGED <<client, twid, auth_token, csrf_token,
                                poll_cursor, _connected, _intentional_stop,
                                _connect_task, clients, conns, db_user,
                                by_twid>>]_vars

\* A caller connected the Session and returned; a later caller came with
\* the same credentials, found no task running and returned at once.
C16_Witness ==
    \E j, k \in Lockers :
        /\ j < k
        /\ lockers[j].pc = "done" /\ lockers[j].task # None
        /\ lockers[j].result = "ok"
        /\ lockers[k].pc = "done" /\ lockers[k].task = None
        /\ lockers[k].in_flight = None
        /\ lockers[k].auth_token = auth_token
        /\ lockers[k].csrf_token = csrf_token
        /\ client # None
        /\ NConns = 1

-----------------------------------------------------------------------------
(* C17: the poll loop and the initial sync.                                *)

\* the initial sync that connect a scheduled has not finished
SyncRunning(a) == conns[a].pc \in {"sync_new", "sync_inbox", "sync_convs"}

\* connect a returns from its update() and reaches the end of _connect
ConnectSucceeds(a) ==
    /\ conns[a].pc = "update"
    /\ conns'[a].pc # "update"
    /\ conns'[a].outcome = "ok"

\* C17: a connect that succeeds with a cursor persisted starts the poll
\* loop of the Session's client at once and schedules no sync; one that
\* succeeds without a cursor schedules the initial sync, and the poll loop
\* of the client it installed is not started while that sync has not
\* finished.
C17_PollAfterSync ==
    /\ [](\A a \in Conns : SyncRunning(a) => clients[a].poll = "idle")
    /\ [][\A a \in Conns :
              ConnectSucceeds(a) =>
                  IF poll_cursor # None
                  THEN conns'[a].pc = "end" /\ clients'[client].poll # "idle"
                  ELSE SyncRunning(a)' /\ clients'[a].poll = "idle"]_vars

-----------------------------------------------------------------------------
(* C18: a conversation whose handling raises does not stop sync().         *)

\* the conversations passed to handle_conversation_update so far
HandledConversations == [i \in 1..Len(handled) |-> handled[i].conversation]

\* C18: when handle_conversation_update raises for a conversation, sync()
\* does not raise: it goes on with the conversations ranked after it, in
\* their order, and when the loop is over it calls update_direct_chats()
\* and returns.
C18_SyncSurvivesHandler ==
    /\ sync_pc # "raised"
    /\ sync_pc \in {"loop", "done"}
           => /\ sync_at = Len(handled) + 1
              /\ HandledConversations
                     = SubSeq(SortedRanked(inbox), 1, Len(handled))
    /\ sync_pc = "done" => Len(handled) = Len(inbox)

\* sync() has returned after three conversations: the handler raised for
\* the first, and made the room of the second.
C18_Witness ==
    /\ sync_pc = "done"
    /\ Len(handled) = 3
    /\ handled[1].outcome = "error"
    /\ handled[2].outcome = "ok"
    /\ handled[2].create_portal /\ ~handled[2].had_room
    /\ handled[2].conversation.conversation_id \in portal_mxid

-----------------------------------------------------------------------------
(* C19: a connect whose identity check fails commits nothing.              *)

\* the identity check of connect a raised
FailedIdentity(a) == conns[a].pc = "end" /\ conns[a].at = "identify"

\* the step is one of connect a up to the return of its identity check:
\* the call of _connect, the making of the client object, the check
BeforeCommit(a) ==
    /\ conns[a].pc \in {"free", "new", "identify"}
    /\ conns'[a] # conns[a]
    /\ conns'[a].pc \in {"new", "identify", "end"}

\* C19: a connect whose get_user_identifier() call raises has committed
\* nothing. None of its steps changes the Session's client (with which the
\* handlers are registered), twid, tokens, cursor, the by_twid cache, the
\* rows or the state of a poll loop; it schedules no sync; and the client
\* object it made is never installed and never polls.
C19_FailedCheckCommitsNothing ==
    /\ [](\A a \in Conns :
             FailedIdentity(a) => client # a /\ clients[a].poll = "idle")
    /\ [][\A a \in Conns :
              BeforeCommit(a) =>
                  /\ UNCHANGED <<client, twid, auth_token, csrf_token,
                                 poll_cursor, by_twid, db_user>>
                  /\ \A c \in Conns : clients'[c].poll = clients[c].poll]_vars

\* The Session is connected and its poll loop runs; a later connect with
\* other credentials failed its identity check, and the Session still has
\* the client, the account and the tokens of the first connect.
C19_Witness ==
    \E a, b \in Conns :
        /\ a # b
        /\ conns[a].pc = "end" /\ conns[a].outcome = "ok"
        /\ FailedIdentity(b)
        /\ conns[b].outcome = "auth_error"
        /\ conns[b].auth_token # clients[a].auth_token
        /\ client = a
        /\ clients[a].poll = "starting"
        /\ twid = AccountOf(clients[a].auth_token)
        /\ auth_token = clients[a].auth_token
        /\ db_user[SelfMxid].auth_token = clients[a].auth_token

-----------------------------------------------------------------------------
(* C20: a Conversation event of the poll loop makes no room.               *)

\* the Conversation events whose handler has returned
ConversationsDone ==
    {e \in 1..Len(stream) : /\ stream[e].kind = "conversation"
                            /\ handlers[e].pc = "done"}

\* C20: handle_conversation_update makes the room of a conversation that
\* has none only under create_portal, and the poll loop delivers a
\* Conversation event without it: the handler of such an event makes no
\* room, and a conversation has a room only if it had one at the start or
\* the handler of one of its messages made it.
C20_PollMakesNoRoom ==
    /\ \A e \in ConversationsDone : ~handlers[e].made_room
    /\ \A e \in ConversationsDone :
           (~handlers[e].had_room
                /\ stream[e].conversation_id \in portal_mxid)
               => \E d \in 1..Len(stream) :
                      /\ stream[d].kind = "message"
                      /\ stream[d].conversation_id = stream[e].conversation_id
                      /\ handlers[d].made_room

\* A Conversation event of a conversation without a room was handled and
\* left it without one; a later message of that conversation made the
\* room, and the Conversation event after it found the room.
C20_Witness ==
    /\ Len(stream) = 3
    /\ \A e \in Events : stream[e].conversation_id = 1
    /\ stream[1].kind = "conversation" /\ stream[3].kind = "conversation"
    /\ stream[2].kind = "message"
    /\ \A e \in Events : handlers[e].pc = "done"
    /\ ~handlers[1].had_room /\ ~handlers[1].made_room
    /\ handlers[2].made_room
    /\ handlers[3].had_room
    /\ translations = <<2, 3>>

-----------------------------------------------------------------------------
(* C21: the steps of handle_message.                                       *)

\* how many times the translation of event e was called
Translated(e) ==
    Cardinality({i \in 1..Len(translations) : translations[i] = e})

\* the message events delivered so far
MessagesDelivered ==
    {e \in 1..Len(stream) : /\ stream[e].kind = "message"
                            /\ handlers[e].pc # "idle"}

\* C21: handle_message first makes the room of a conversation that has
\* none, whether or not a sync is running; it goes on past that point only
\* with a room; it calls handle_twitter_message only after its
\* backfill_lock.wait has returned; and it calls it once: never twice, and
\* once whenever the handler returns without an exception.
C21_MessageSteps ==
    \A e \in MessagesDelivered :
        /\ Translated(e) <= 1
        /\ handlers[e].pc \in {"sender", "backfill_wait", "translate"}
               => (handlers[e].had_room \/ handlers[e].made_room)
        /\ handlers[e].made_room => ~handlers[e].had_room
        /\ Translated(e) = 1
               => /\ handlers[e].waited
                  /\ handlers[e].had_room \/ handlers[e].made_room
                  /\ stream[e].conversation_id \in portal_mxid
        /\ (handlers[e].pc = "done" /\ ~handlers[e].raised)
               => Translated(e) = 1
        /\ handlers[e].pc \in {"portal", "create_room", "sender",
                                "backfill_wait"} => Translated(e) = 0

\* Two messages of a conversation without a room were handled: the first
\* made the room, waited and was translated; the second found the room,
\* waited and was translated.
C21_Witness ==
    /\ Len(stream) >= 2
    /\ stream[1].kind = "message" /\ stream[2].kind = "message"
    /\ stream[1].conversation_id = stream[2].conversation_id
    /\ handlers[1].pc = "done" /\ handlers[2].pc = "done"
    /\ handlers[1].made_room /\ handlers[1].waited
    /\ handlers[2].had_room /\ handlers[2].waited
    /\ SubSeq(translations, 1, 2) = <<1, 2>>
    /\ sync_pc = "idle"

-----------------------------------------------------------------------------
(* C22: a fatal authentication error of the poll loop.                     *)

\* the on_error calls made for a fatal error whose cause is a
\* TwitterAuthError
AuthErrors ==
    {n \in ErrorCalls : /\ errors[n].pc # "idle"
                        /\ errors[n].evt.fatal /\ errors[n].evt.auth}

\* C22: for a fatal error caused by rejected credentials on_error pushes
\* BAD_CREDENTIALS and then sends a notice to the notice room, and no
\* setting of the configuration keeps that notice from going out: with
\* notices disabled the notice is in the room all the same once its
\* send_bridge_notice call is over.
C22_AuthErrorNotice ==
    \A n \in AuthErrors :
        /\ errors[n].pushes = <<"BAD_CREDENTIALS">>
        /\ errors[n].pc = "notice" => notices[n].pc # "idle"
        /\ (/\ errors[n].pc = "notice"
            /\ notices[n].pc = "done"
            /\ disable_bridge_notices)
               => \E i \in 1..Len(sent) : sent[i] = n

-----------------------------------------------------------------------------
(* C23: repeated transient errors of the poll loop.                        *)

\* the on_error calls made for a non-fatal error that is not the first
RepeatedErrors ==
    {n \in ErrorCalls : /\ errors[n].pc # "idle"
                        /\ ~errors[n].evt.fatal
                        /\ errors[n].evt.count >= 2}

\* C23: for a non-fatal error with count >= 2 on_error calls no
\* send_bridge_notice, so nothing goes to the notice room, and the one
\* health state it pushes is TRANSIENT_DISCONNECT for a count below 5 and
\* UNKNOWN_ERROR for a count of 5 or more.
C23_RepeatedErrorsEscalate ==
    \A n \in RepeatedErrors :
        /\ errors[n].pc \in {"push", "done"}
        /\ notices[n].pc = "idle"
        /\ \A i \in 1..Len(triggered) : triggered[i] # n
        /\ \A i \in 1..Len(sent) : sent[i] # n
        /\ errors[n].evt.count < 5
               => errors[n].pushes = <<"TRANSIENT_DISCONNECT">>
        /\ errors[n].evt.count >= 5
               => errors[n].pushes = <<"UNKNOWN_ERROR">>

\* With every notice switched on, the fourth and the fifth error in a row
\* were reported: TRANSIENT_DISCONNECT was pushed for the one,
\* UNKNOWN_ERROR for the other, and the notice room got nothing.
C23_Witness ==
    /\ temporary_disconnect_notices /\ ~disable_bridge_notices
    /\ errors[1].pc = "done" /\ errors[2].pc = "done"
    /\ ~errors[1].evt.fatal /\ ~errors[2].evt.fatal
    /\ errors[1].evt.count = 4 /\ errors[2].evt.count = 5
    /\ errors[1].pushes = <<"TRANSIENT_DISCONNECT">>
    /\ errors[2].pushes = <<"UNKNOWN_ERROR">>
    /\ sent = <<>>

-----------------------------------------------------------------------------
(* C24: the by_twid entries of the Session.                                *)

\* C24: every by_twid entry that holds the Session is under the remote id
\* the Session has: by_twid[t] = u implies u.twid = t.  (The by_mxid entry
\* of the Session is the one it was loaded into, which no connect and no
\* logout changes.)
C24_ByTwidConsistent ==
    \A t \in Twids : by_twid[t] = SelfObj => twid = t

-----------------------------------------------------------------------------
(* C25: one instance per local id, whatever the lookup.                    *)

\* C25: whatever the interleaving of get_by_mxid, get_by_twid and
\* all_logged_in calls, at most one User instance is ever cached or handed
\* out for a local id.
C25_OneInstancePerMxid ==
    \A m \in UserMxids : Cardinality(ObjsOf(m)) <= 1

-----------------------------------------------------------------------------
(* C26: stop() halts the poll loop for good.                               *)

\* C26: once stop() has returned, and until a connect succeeds after it,
\* the poll loop of the Session's client is not running, also when stop()
\* was called while the initial sync was in progress.
C26_StoppedStaysStopped ==
    (stopper = "done" /\ stop_since_connect /\ client # None)
        => ~IsPolling(client)

-----------------------------------------------------------------------------
(* C27: a locked_connect call that returns has had its credentials tried.  *)

\* the _connect calls made with the arguments of locked_connect call k
ConnectsWith(k) ==
    {t \in Conns : /\ conns[t].pc # "free"
                   /\ conns[t].auth_token = lockers[k].auth_token
                   /\ conns[t].csrf_token = lockers[k].csrf_token}

\* C27: when locked_connect(a, c) has returned normally and (a, c) were not
\* the tokens of the Session when it was called, a _connect with (a, c) was
\* run, also when the call found another connect in flight.
C27_CredentialsTried ==
    \A k \in Lockers :
        (lockers[k].pc = "done" /\ lockers[k].result = "ok"
            /\ lockers[k].differed)
        => ConnectsWith(k) # {}

-----------------------------------------------------------------------------
(* C28: is_logged_in after a connect.                                      *)

\* the is_logged_in calls that were made on a client installed by a
\* successful connect, no identity check of that client having failed and
\* no call having returned on another client than it was made on
PingsAfterConnect ==
    {p \in Pings : /\ pings[p].pc = "done"
                   /\ pings[p].connected
                   /\ \A q \in Pings :
                          pings[q].pc = "done"
                              => pings[q].cl_ret = pings[q].cl
                   /\ \A q \in Pings :
                          pings[q].cl = pings[p].cl
                              => pings[q].checked \in {"unasked", "ok"}}

\* C28: an is_logged_in call on the client of a successful connect returns
\* true unless an identity check of that client fails, whatever answer was
\* cached before the connect.
C28_LoggedInAfterConnect ==
    \A p \in PingsAfterConnect : pings[p].result

-----------------------------------------------------------------------------
(* C29: sync() and the cursor of the adapter.                              *)

\* C29: a sync() called on a Session that holds a cursor leaves the cursor
\* of the Session's client as it finds it.
C29_SyncKeepsCursor ==
    (syncer.pc = "fetch" /\ syncer.held # None)
        => syncer.after = syncer.before

-----------------------------------------------------------------------------
(* C30: a successful connect gets the poll loop started.                   *)

\* the poll loop of the Session's client has been started
LoopStarted == client # None /\ clients[client].poll # "idle"

\* stop() or logout() was called after the last connect that succeeded,
\* or a logout() called before has cleared the Session after it
StoppedSince == stop_since_connect \/ client = None

\* _connect call a succeeds with a cursor: the loop is started at once
StartsAtOnce(a) ==
    (conns[a].pc = "update" /\ conns'[a].pc = "end"
        /\ conns'[a].outcome = "ok")
    => (client' # None /\ clients'[client'].poll # "idle")

\* the initial sync of _connect call a ends on a Session that has a
\* client: the loop of that client has been started
StartsAfterSync(a) ==
    (conns[a].pc \in {"sync_new", "sync_inbox", "sync_convs"}
        /\ conns'[a].pc = "end" /\ client' # None)
    => clients'[client'].poll # "idle"

\* C30: a _connect that has succeeded starts the poll loop of the
\* Session's client in the same step when there is a cursor; when it made
\* the initial sync a task, the task ends with the loop started, whether
\* sync() returned or raised, unless stop() or logout() is called first.
C30_PollEventuallyStarted ==
    /\ \A a \in Conns :
           (conns[a].pc = "sync_new")
               ~> (StoppedSince \/ (conns[a].pc = "end" /\ LoopStarted))
    /\ [][\A a \in Conns : StartsAtOnce(a) /\ StartsAfterSync(a)]_vars

\* The initial sync of a successful connect has ended, no stop() or
\* logout() was called since, and the loop of the Session's client runs.
C30_Witness ==
    \E a \in Conns :
        /\ conns[a].pc = "end"
        /\ conns[a].outcome = "ok"
        /\ conns[a].at = "none"
        /\ ~stop_since_connect
        /\ client # None
        /\ IsPolling(client)

====
